---- MODULE Spec2Model ----
(***************************************************************************)
(* Security Acquisition Auditor: the pattern-based vulnerability scanner   *)
(* of audit/security_auditor.py (SecurityAuditor), as a state machine,     *)
(* followed by the business risk calculator of audit/risk_calculator.py    *)
(* (BusinessRiskCalculator).                                               *)
(*                                                                         *)
(* Conventions.                                                            *)
(*  - A path string is a sequence of one-character strings, so that        *)
(*    `token in str(path)`, Path.suffix and str.lower() are computed on    *)
(*    the characters as the code computes them.                            *)
(*  - A source line is a TLA+ string.  re.search is the relation           *)
(*    SearchTable: the pairs (rule, line) for which                        *)
(*    re.search(rule, line, re.IGNORECASE) finds a match, evaluated with   *)
(*    the rules of the catalog on the sample lines below.                  *)
(*  - A float with one decimal is the integer number of its tenths:        *)
(*    9.0 is 90, 7.5 is 75, a risk score of 6.0 is 60.                     *)
(***************************************************************************)
EXTENDS Integers, Sequences, FiniteSets, TLC

VARIABLES
    target_path,   \* self.target_path, a path string
    tree,          \* the entries target_path.rglob('*') yields, in walk order
    patterns,      \* self.patterns: category -> [(rule, description)], ordered
    lists,         \* the heap of list objects: reference -> contents
    results,       \* the AuditResult objects returned so far, oldest first
    returned,      \* what each result's finding list held when it was returned
    stdout,        \* the lines printed so far
    looked_up,     \* the catalog lookups made so far: category and answers
    findings,      \* the list handed to calculate_risk_score
    score,         \* << its return value >>, <<>> before it returns
    audit_input,   \* the dict handed to generate_risk_assessment
    industry_arg,  \* the industry handed to it, a string of characters
    metrics,       \* << the RiskMetrics returned >>, <<>> before
    summary,       \* << the executive summary returned >>, <<>> before
    comprehensive_results   \* << what run_comprehensive_audit returned >>

vars == <<target_path, tree, patterns, lists, results, returned, stdout,
          looked_up, findings, score,
          audit_input, industry_arg, metrics, summary, comprehensive_results>>

\* the state of the components a specification does not exercise
NoLookup == looked_up = <<>>

NoScoreCall == findings = <<>> /\ score = <<>>

NoAudit == comprehensive_results = <<>>

NoAssessment ==
    /\ audit_input = <<>>
    /\ industry_arg = <<>>
    /\ metrics = <<>>
    /\ summary = <<>>

(***************************************************************************)
(* Bounds of the model.                                                    *)
(***************************************************************************)
MaxFiles == 2      \* entries in the walked tree
MaxScans == 2      \* scan_directory calls on the one auditor
MaxLookups == 2    \* direct calls of the catalog lookups on one auditor
MaxScored == 4     \* findings in a list handed to calculate_risk_score
MaxRepeat == 3     \* times a finding list is repeated
MaxShort == 3      \* finding summaries of any kind in an assessed list
MaxVulns == 6      \* finding summaries of the core kinds in an assessed list

(***************************************************************************)
(* Sequence helpers.                                                       *)
(***************************************************************************)
Range(s) == { s[i] : i \in DOMAIN s }

RECURSIVE Flatten(_)
Flatten(ss) == IF ss = <<>> THEN <<>> ELSE Head(ss) \o Flatten(Tail(ss))

\* the injective sequences over S of length at most n
RECURSIVE InjectiveSeqs(_, _)
InjectiveSeqs(S, n) ==
    IF n = 0 THEN { <<>> }
    ELSE LET shorter == InjectiveSeqs(S, n - 1)
         IN  shorter \cup { Append(s, x) : <<s, x>> \in
                              { p \in shorter \X S : p[2] \notin Range(p[1]) } }

(***************************************************************************)
(* The pattern catalog of SecurityAuditor.__init__.                        *)
(***************************************************************************)
patterns_builtin ==
    << [category |-> "xss", rules |-> <<
            [pattern |-> "innerHTML\\s*=\\s*[^;]*\\+",
             description |-> "Potential XSS via innerHTML concatenation"],
            [pattern |-> "document\\.write\\s*\\([^)]*\\+",
             description |-> "Potential XSS via document.write concatenation"],
            [pattern |-> "eval\\s*\\([^)]*\\+",
             description |-> "Potential XSS via eval with user input"],
            [pattern |-> "dangerouslySetInnerHTML.*[^}]}\\}",
             description |-> "React dangerouslySetInnerHTML usage"],
            [pattern |-> "v-html\\s*=\\s*[\"\\'][^\"\\']*\\+",
             description |-> "Vue.js v-html with concatenation"] >>],
       [category |-> "sql_injection", rules |-> <<
            [pattern |-> "SELECT.*\\+.*FROM",
             description |-> "SQL query with string concatenation"],
            [pattern |-> "INSERT.*\\+.*VALUES",
             description |-> "SQL INSERT with string concatenation"],
            [pattern |-> "UPDATE.*SET.*\\+",
             description |-> "SQL UPDATE with string concatenation"],
            [pattern |-> "DELETE.*WHERE.*\\+",
             description |-> "SQL DELETE with string concatenation"],
            [pattern |-> "query\\s*\\(\\s*[\"\\'][^\"\\']*\\+",
             description |-> "Database query with concatenation"],
            [pattern |-> "execute\\s*\\(\\s*[\"\\'][^\"\\']*\\+",
             description |-> "SQL execute with concatenation"] >>],
       [category |-> "command_injection", rules |-> <<
            [pattern |-> "exec\\s*\\([^)]*\\+",
             description |-> "Command execution with concatenation"],
            [pattern |-> "system\\s*\\([^)]*\\+",
             description |-> "System command with concatenation"],
            [pattern |-> "shell_exec\\s*\\([^)]*\\+",
             description |-> "Shell execution with concatenation"],
            [pattern |-> "subprocess\\.call\\s*\\([^)]*\\+",
             description |-> "Subprocess call with concatenation"],
            [pattern |-> "os\\.system\\s*\\([^)]*\\+",
             description |-> "OS system call with concatenation"] >>],
       [category |-> "path_traversal", rules |-> <<
            [pattern |-> "\\.\\./",
             description |-> "Potential path traversal sequence"],
            [pattern |-> "\\.\\.\\\\\\\\",
             description |-> "Potential Windows path traversal"],
            [pattern |-> "file_get_contents\\s*\\([^)]*\\$",
             description |-> "File access with variable path"],
            [pattern |-> "readFile\\s*\\([^)]*\\+",
             description |-> "File read with concatenated path"],
            [pattern |-> "open\\s*\\([^)]*\\+.*[\"\\']r",
             description |-> "File open with concatenated path"] >>],
       [category |-> "ssrf", rules |-> <<
            [pattern |-> "fetch\\s*\\(\\s*[^)]*\\$",
             description |-> "HTTP request with variable URL"],
            [pattern |-> "axios\\.[a-z]+\\s*\\([^)]*\\$",
             description |-> "Axios request with variable URL"],
            [pattern |-> "http\\.get\\s*\\([^)]*\\$",
             description |-> "HTTP GET with variable URL"],
            [pattern |-> "requests\\.[a-z]+\\s*\\([^)]*\\+",
             description |-> "Python requests with concatenated URL"],
            [pattern |-> "curl\\s+[^;]*\\$",
             description |-> "cURL with variable URL"] >>],
       [category |-> "hardcoded_secrets", rules |-> <<
            [pattern |-> "password\\s*=\\s*[\"\\'][^\"\\']{8,}[\"\\']",
             description |-> "Hardcoded password"],
            [pattern |-> "api[_-]?key\\s*=\\s*[\"\\'][^\"\\']{16,}[\"\\']",
             description |-> "Hardcoded API key"],
            [pattern |-> "secret\\s*=\\s*[\"\\'][^\"\\']{16,}[\"\\']",
             description |-> "Hardcoded secret"],
            [pattern |-> "token\\s*=\\s*[\"\\'][^\"\\']{20,}[\"\\']",
             description |-> "Hardcoded token"],
            [pattern |-> "[A-Z0-9]{32,}",
             description |-> "Potential hardcoded hash/key"] >>],
       [category |-> "weak_crypto", rules |-> <<
            [pattern |-> "md5\\s*\\(",
             description |-> "Weak MD5 hashing"],
            [pattern |-> "sha1\\s*\\(",
             description |-> "Weak SHA1 hashing"],
            [pattern |-> "DES|RC4",
             description |-> "Weak encryption algorithm"],
            [pattern |-> "Math\\.random\\s*\\(",
             description |-> "Weak random number generation"],
            [pattern |-> "random\\s*\\(\\s*\\)",
             description |-> "Weak random function usage"] >>],
       [category |-> "insecure_deserialization", rules |-> <<
            [pattern |-> "pickle\\.loads\\s*\\(",
             description |-> "Unsafe pickle deserialization"],
            [pattern |-> "JSON\\.parse\\s*\\([^)]*req\\.body",
             description |-> "JSON parsing user input"],
            [pattern |-> "unserialize\\s*\\(\\s*\\$_",
             description |-> "PHP unserialize user input"],
            [pattern |-> "yaml\\.load\\s*\\([^)]*\\)",
             description |-> "YAML load without safe loader"] >>],
       [category |-> "information_disclosure", rules |-> <<
            [pattern |-> "console\\.log\\s*\\([^)]*password",
             description |-> "Password logged to console"],
            [pattern |-> "print\\s*\\([^)]*password",
             description |-> "Password in print statement"],
            [pattern |-> "printStackTrace\\s*\\(\\s*\\)",
             description |-> "Stack trace exposure"],
            [pattern |-> "error_reporting\\s*\\(\\s*E_ALL",
             description |-> "Full error reporting enabled"] >>] >>

file_extensions ==
    { <<".", "j", "s">>,
      <<".", "j", "s", "x">>,
      <<".", "t", "s">>,
      <<".", "t", "s", "x">>,
      <<".", "p", "y">>,
      <<".", "j", "a", "v", "a">>,
      <<".", "c", "s">>,
      <<".", "p", "h", "p">>,
      <<".", "r", "b">>,
      <<".", "g", "o">>,
      <<".", "r", "s">>,
      <<".", "c", "p", "p">>,
      <<".", "c">>,
      <<".", "h">>,
      <<".", "s", "q", "l">>,
      <<".", "j", "s", "o", "n">>,
      <<".", "y", "a", "m", "l">>,
      <<".", "y", "m", "l">> }

skip_patterns ==
    << <<"n", "o", "d", "e", "_", "m", "o", "d", "u", "l", "e", "s">>,
       <<".", "g", "i", "t">>,
       <<"_", "_", "p", "y", "c", "a", "c", "h", "e", "_", "_">>,
       <<".", "v", "e", "n", "v">>,
       <<"v", "e", "n", "v">>,
       <<"b", "u", "i", "l", "d">>,
       <<"d", "i", "s", "t">>,
       <<".", "n", "e", "x", "t">>,
       <<"t", "a", "r", "g", "e", "t">>,
       <<"b", "i", "n">>,
       <<"o", "b", "j">> >>

(***************************************************************************)
(* Sample source lines, and re.search on them.                             *)
(***************************************************************************)
LinePlain     == "const n = 1;"
LineScenarioA == "query(\"SELECT * FROM users WHERE id=\" + userId)"
LineMd5       == "x = md5(data)"
LineExec      == "  exec(\"rm \" + path)  "
LineOpen      == "open(\"../\" + name, \"r\")"
LineLog       == "console.log(\"password\" + md5(p))"
LineSelect    == "db.query(\"select \" + cols + \" from t\")"
LineEmpty     == ""

\* (rule, line) with re.search(rule, line, re.IGNORECASE) not None, over the
\* rules of patterns_builtin and the sample lines
SearchTable ==
    { <<"SELECT.*\\+.*FROM", LineSelect>>,
      <<"exec\\s*\\([^)]*\\+", LineExec>>,
      <<"\\.\\./", LineOpen>>,
      <<"open\\s*\\([^)]*\\+.*[\"\\']r", LineOpen>>,
      <<"md5\\s*\\(", LineMd5>>,
      <<"md5\\s*\\(", LineLog>>,
      <<"console\\.log\\s*\\([^)]*password", LineLog>> }

\* a rule that is no regular expression: re.search raises re.error on it
InvalidRule == "("

re_compiles(pattern) == pattern # InvalidRule

re_search(pattern, line) == <<pattern, line>> \in SearchTable

\* str.strip() on the sample lines
strip(line) == IF line = LineExec THEN "exec(\"rm \" + path)" ELSE line

(***************************************************************************)
(* Path strings.                                                           *)
(***************************************************************************)
LowerChar(c) ==
    CASE c = "A" -> "a" [] c = "B" -> "b" [] c = "C" -> "c" [] c = "D" -> "d"
      [] c = "E" -> "e" [] c = "F" -> "f" [] c = "G" -> "g" [] c = "H" -> "h"
      [] c = "I" -> "i" [] c = "J" -> "j" [] c = "K" -> "k" [] c = "L" -> "l"
      [] c = "M" -> "m" [] c = "N" -> "n" [] c = "O" -> "o" [] c = "P" -> "p"
      [] c = "Q" -> "q" [] c = "R" -> "r" [] c = "S" -> "s" [] c = "T" -> "t"
      [] c = "U" -> "u" [] c = "V" -> "v" [] c = "W" -> "w" [] c = "X" -> "x"
      [] c = "Y" -> "y" [] c = "Z" -> "z" [] OTHER -> c

\* str.lower()
lower(s) == [i \in DOMAIN s |-> LowerChar(s[i])]

\* `sub in s` on strings
Contains(sub, s) ==
    \E i \in 1..(Len(s) - Len(sub) + 1) : SubSeq(s, i, i + Len(sub) - 1) = sub

\* the position of the last c in s, 0 when there is none (str.rfind, 1-based)
LastIndex(s, c) ==
    LET at == { i \in DOMAIN s : s[i] = c }
    IN  IF at = {} THEN 0 ELSE CHOOSE i \in at : \A j \in at : j <= i

\* Path.name: the final component
name(path) == SubSeq(path, LastIndex(path, "/") + 1, Len(path))

\* Path.suffix: the final component's part from its last dot on, empty when
\* the dot is the first or the last character or there is none
suffix(path) ==
    LET n == name(path)
        i == LastIndex(n, ".")
    IN  IF 1 < i /\ i < Len(n) THEN SubSeq(n, i, Len(n)) ELSE <<>>

\* str(file_path) of an entry rglob yields under target
FullPath(target, rel) == target \o <<"/">> \o rel

\* file_path.relative_to(self.target_path), as a string
relative_to(full, target) == SubSeq(full, Len(target) + 2, Len(full))

_should_skip_file(file_path) ==
    \E i \in DOMAIN skip_patterns : Contains(skip_patterns[i], file_path)

(***************************************************************************)
(* The catalog lookups.                                                    *)
(***************************************************************************)
\* _get_severity with weak_crypto rated low
_get_severity_WeakCryptoLow(category) ==
    CASE category = "sql_injection"            -> "critical"
      [] category = "command_injection"        -> "critical"
      [] category = "xss"                      -> "critical"
      [] category = "ssrf"                     -> "high"
      [] category = "path_traversal"           -> "high"
      [] category = "hardcoded_secrets"        -> "high"
      [] category = "insecure_deserialization" -> "high"
      [] category = "weak_crypto"              -> "low"
      [] category = "information_disclosure"   -> "medium"
      [] OTHER                                 -> "low"

\* _get_severity answering 'medium' for a category it does not know
_get_severity_DefaultMedium(category) ==
    CASE category = "sql_injection"            -> "critical"
      [] category = "command_injection"        -> "critical"
      [] category = "xss"                      -> "critical"
      [] category = "ssrf"                     -> "high"
      [] category = "path_traversal"           -> "high"
      [] category = "hardcoded_secrets"        -> "high"
      [] category = "insecure_deserialization" -> "high"
      [] category = "weak_crypto"              -> "medium"
      [] category = "information_disclosure"   -> "medium"
      [] OTHER                                 -> "medium"

_get_severity(category) ==
    CASE category = "sql_injection"            -> "critical"
      [] category = "command_injection"        -> "critical"
      [] category = "xss"                      -> "critical"
      [] category = "ssrf"                     -> "high"
      [] category = "path_traversal"           -> "high"
      [] category = "hardcoded_secrets"        -> "high"
      [] category = "insecure_deserialization" -> "high"
      [] category = "weak_crypto"              -> "medium"
      [] category = "information_disclosure"   -> "medium"
      [] OTHER                                 -> "low"

_get_remediation(category) ==
    CASE category = "xss" ->
           "Use proper input validation and output encoding. Implement CSP headers."
      [] category = "sql_injection" ->
           "Use parameterized queries or prepared statements."
      [] category = "command_injection" ->
           "Validate and sanitize all user inputs. Use safe APIs."
      [] category = "path_traversal" ->
           "Validate file paths and use allowlists for permitted directories."
      [] category = "ssrf" ->
           "Validate and restrict URLs. Use allowlists for permitted domains."
      [] category = "hardcoded_secrets" ->
           "Use environment variables or secure key management systems."
      [] category = "weak_crypto" ->
           "Use strong cryptographic algorithms (AES-256, SHA-256+)."
      [] category = "insecure_deserialization" ->
           "Validate data before deserialization or use safe formats."
      [] category = "information_disclosure" ->
           "Remove sensitive information from logs and error messages."
      [] OTHER -> "Review and secure the identified code."

_get_cwe_id(category) ==
    CASE category = "xss"                      -> "CWE-79"
      [] category = "sql_injection"            -> "CWE-89"
      [] category = "command_injection"        -> "CWE-78"
      [] category = "path_traversal"           -> "CWE-22"
      [] category = "ssrf"                     -> "CWE-918"
      [] category = "hardcoded_secrets"        -> "CWE-798"
      [] category = "weak_crypto"              -> "CWE-327"
      [] category = "insecure_deserialization" -> "CWE-502"
      [] category = "information_disclosure"   -> "CWE-200"
      [] OTHER                                 -> "CWE-Unknown"

\* _get_cvss_score with the weight of calculate_risk_score for high
_get_cvss_score_Weights(severity) ==
    CASE severity = "critical" -> 90
      [] severity = "high"     -> 70
      [] severity = "medium"   -> 50
      [] severity = "low"      -> 25
      [] OTHER                 -> 0

\* in tenths
_get_cvss_score(severity) ==
    CASE severity = "critical" -> 90
      [] severity = "high"     -> 75
      [] severity = "medium"   -> 50
      [] severity = "low"      -> 25
      [] OTHER                 -> 0

(***************************************************************************)
(* scan_file.                                                              *)
(***************************************************************************)
\* self.patterns.items() and the rules of each category, in iteration order
Rules(pats) ==
    Flatten([c \in DOMAIN pats |->
               [r \in DOMAIN pats[c].rules |->
                  [category    |-> pats[c].category,
                   pattern     |-> pats[c].rules[r].pattern,
                   description |-> pats[c].rules[r].description]]])

Vulnerability(rule, rel, line_num, line) ==
    [severity     |-> _get_severity(rule.category),
     category     |-> rule.category,
     description  |-> rule.description,
     file_path    |-> rel,
     line_number  |-> line_num,
     code_snippet |-> strip(line),
     remediation  |-> _get_remediation(rule.category),
     cwe_id       |-> _get_cwe_id(rule.category),
     cvss_score   |-> _get_cvss_score(_get_severity(rule.category))]

\* LineLoop numbering the lines from 0: enumerate(lines)
LineLoop_ZeroBased(rule, rel, lines) ==
    Flatten([line_num \in DOMAIN lines |->
               IF re_search(rule.pattern, lines[line_num])
               THEN << Vulnerability(rule, rel, line_num - 1, lines[line_num]) >>
               ELSE <<>>])

\* LineLoop leaving the loop at a rule's first matching line: a break
LineLoop_FirstMatch(rule, rel, lines) ==
    LET hits == { n \in DOMAIN lines : re_search(rule.pattern, lines[n]) }
    IN  IF hits = {} THEN <<>>
        ELSE LET first == CHOOSE n \in hits : \A m \in hits : n <= m
             IN  << Vulnerability(rule, rel, first, lines[first]) >>

\* for line_num, line in enumerate(lines, 1): one rule over the lines
LineLoop(rule, rel, lines) ==
    Flatten([line_num \in DOMAIN lines |->
               IF re_search(rule.pattern, lines[line_num])
               THEN << Vulnerability(rule, rel, line_num, lines[line_num]) >>
               ELSE <<>>])

\* the first rule on which re.search raises, Len(rules) + 1 when there is none
\* (lines is never empty: str.split yields at least one element)
FirstRaise(rules, lines) ==
    LET bad == { k \in DOMAIN rules : ~re_compiles(rules[k].pattern) /\ lines # <<>> }
    IN  IF bad = {} THEN Len(rules) + 1
        ELSE CHOOSE k \in bad : \A j \in bad : k <= j

ErrorLine(full) == [text |-> "Error scanning", path |-> full]

\* the list scan_file returns and what it prints.  An exception raised by
\* open/read or by re.search is caught by the one handler around both: the
\* findings appended before it are returned.
scan_file(full, entry, target, pats) ==
    IF ~entry.readable
    THEN [vulnerabilities |-> <<>>, printed |-> << ErrorLine(full) >>]
    ELSE LET rules == Rules(pats)
             stop  == FirstRaise(rules, entry.lines)
             rel   == relative_to(full, target)
         IN  [vulnerabilities |->
                 Flatten([k \in 1..(stop - 1) |-> LineLoop(rules[k], rel, entry.lines)]),
              printed |->
                 IF stop <= Len(rules) THEN << ErrorLine(full) >> ELSE <<>>]

(***************************************************************************)
(* calculate_risk_score.                                                   *)
(***************************************************************************)
\* severity_weights without the entry for 'low'
severity_weights_NoLow(severity) ==
    CASE severity = "critical" -> 10
      [] severity = "high"     -> 7
      [] severity = "medium"   -> 4
      [] OTHER                 -> 0

severity_weights(severity) ==
    CASE severity = "critical" -> 10
      [] severity = "high"     -> 7
      [] severity = "medium"   -> 4
      [] severity = "low"      -> 1
      [] OTHER                 -> 0

RECURSIVE SumWeights(_)
SumWeights(vs) ==
    IF vs = <<>> THEN 0 ELSE severity_weights(Head(vs).severity) + SumWeights(Tail(vs))

\* num/den rounded to the nearest integer, a tie to the even one: round(x, 1)
\* on the tenths.  (The float total_score / max_possible * 10 rounds as the
\* exact quotient does unless the number of findings is a multiple of 20.)
RoundHalfEven(num, den) ==
    LET fl  == num \div den
        rem == num % den
    IN  IF 2 * rem > den \/ (2 * rem = den /\ fl % 2 = 1) THEN fl + 1 ELSE fl

\* calculate_risk_score dividing by a fixed ten findings, not by their number
calculate_risk_score_Volume(vulnerabilities) ==
    IF vulnerabilities = <<>> THEN 0
    ELSE LET total_score  == SumWeights(vulnerabilities)
             max_possible == 10 * 10
             tenths       == RoundHalfEven(total_score * 100, max_possible)
         IN  IF tenths > 100 THEN 100 ELSE tenths

\* calculate_risk_score dividing by the findings of a known severity only
calculate_risk_score_KnownOnly(vulnerabilities) ==
    IF vulnerabilities = <<>> THEN 0
    ELSE LET total_score  == SumWeights(vulnerabilities)
             max_possible ==
                 10 * Len(SelectSeq(vulnerabilities,
                                    LAMBDA v : v.severity \in { "critical", "high", "medium", "low" }))
         IN  IF max_possible > 0 THEN RoundHalfEven(total_score * 100, max_possible) ELSE 0

\* in tenths
calculate_risk_score(vulnerabilities) ==
    IF vulnerabilities = <<>> THEN 0
    ELSE LET total_score  == SumWeights(vulnerabilities)
             max_possible == Len(vulnerabilities) * 10
         IN  RoundHalfEven(total_score * 100, max_possible)

(***************************************************************************)
(* scan_directory.                                                         *)
(***************************************************************************)
SelfVulnerabilities == "self.vulnerabilities"   \* the list made in __init__

\* Eligible comparing the extension as written, not lower-cased
Eligible_CaseSensitive(target, entry) ==
    LET file_path == FullPath(target, entry.rel)
    IN  /\ entry.is_file
        /\ suffix(file_path) \in file_extensions
        /\ ~_should_skip_file(file_path)

Eligible(target, entry) ==
    LET file_path == FullPath(target, entry.rel)
    IN  /\ entry.is_file
        /\ lower(suffix(file_path)) \in file_extensions
        /\ ~_should_skip_file(file_path)

\* WalkLoop with the handler around the whole loop: the walk ends at the
\* first file whose scan raises
WalkLoop_StopAtFault(target, entries, pats) ==
    LET raised == { i \in DOMAIN entries :
                      Eligible(target, entries[i]) /\ ~entries[i].readable }
    IN  [i \in DOMAIN entries |->
           IF Eligible(target, entries[i]) /\ \A j \in raised : i <= j
           THEN LET got == scan_file(FullPath(target, entries[i].rel), entries[i],
                                     target, pats)
                IN  [vulnerabilities |-> got.vulnerabilities,
                     printed |-> << [text |-> "Scanning", path |-> entries[i].rel] >>
                                 \o got.printed,
                     scanned |-> TRUE]
           ELSE [vulnerabilities |-> <<>>, printed |-> <<>>, scanned |-> FALSE]]

\* one iteration of the walk for each entry: the findings it extends
\* self.vulnerabilities by, what it prints, whether it counted the file
WalkLoop(target, entries, pats) ==
    [i \in DOMAIN entries |->
       IF Eligible(target, entries[i])
       THEN LET got == scan_file(FullPath(target, entries[i].rel), entries[i],
                                 target, pats)
            IN  [vulnerabilities |-> got.vulnerabilities,
                 printed |-> << [text |-> "Scanning", path |-> entries[i].rel] >>
                             \o got.printed,
                 scanned |-> TRUE]
       ELSE [vulnerabilities |-> <<>>, printed |-> <<>>, scanned |-> FALSE]]

\* vulnerabilities is a reference to a list object, not a copy of it; the
\* clock fields timestamp and scan_duration are left out
AuditResult(files_scanned, ref, risk_score) ==
    [total_files_scanned |-> files_scanned,
     vulnerabilities     |-> ref,
     risk_score          |-> risk_score]

ScanDirectory ==
    /\ Len(results) < MaxScans
    /\ LET walk  == WalkLoop(target_path, tree, patterns)
           found == Flatten([i \in DOMAIN walk |-> walk[i].vulnerabilities])
           after == lists[SelfVulnerabilities] \o found
       IN  /\ lists' = [lists EXCEPT ![SelfVulnerabilities] = after]
           /\ results' = Append(results,
                  AuditResult(Cardinality({ i \in DOMAIN walk : walk[i].scanned }),
                              SelfVulnerabilities,
                              calculate_risk_score(after)))
           /\ returned' = Append(returned, after)
           /\ stdout' = stdout
                        \o << [text |-> "Starting security audit of", path |-> target_path] >>
                        \o Flatten([i \in DOMAIN walk |-> walk[i].printed])
    /\ UNCHANGED <<target_path, tree, patterns, looked_up, findings,
                   score, audit_input, industry_arg, metrics,
                   summary,
                   comprehensive_results>>

(***************************************************************************)
(* The trees scanned.                                                      *)
(***************************************************************************)
File(rel, lines) == [rel |-> rel, is_file |-> TRUE, readable |-> TRUE, lines |-> lines]

Unreadable(rel, lines) ==
    [rel |-> rel, is_file |-> TRUE, readable |-> FALSE, lines |-> lines]

Directory(rel) == [rel |-> rel, is_file |-> FALSE, readable |-> FALSE, lines |-> <<>>]

FileA      == File(<<"a", ".", "j", "s">>, << LinePlain, LineScenarioA >>)
FileB      == File(<<"s", "u", "b", "/", "b", ".", "P", "Y">>, << LineMd5, LineExec >>)
FileC      == File(<<"c", ".", "p", "y">>, << LineOpen >>)
FileE      == File(<<"a", "p", "i", "/", "e", ".", "t", "s">>, << LineLog, LineSelect, LineMd5 >>)
FileDep    == File(<<"n", "o", "d", "e", "_", "m", "o", "d", "u", "l", "e", "s", "/",
                     "p", "/", "d", ".", "j", "s">>, << LineMd5 >>)
FileRobin  == File(<<"r", "o", "b", "i", "n", ".", "p", "y">>, << LineMd5 >>)
FileNotes  == File(<<"n", "o", "t", "e", "s", ".", "t", "x", "t">>, << LineMd5 >>)
FileHidden == File(<<".", "j", "s">>, << LineEmpty, LineMd5 >>)
FileLocked == Unreadable(<<"l", "o", "c", "k", "e", "d", ".", "p", "y">>,
                         << LineMd5, LineExec >>)
DirPy      == Directory(<<"d", ".", "p", "y">>)

Entries ==
    { FileA, FileB, FileC, FileE, FileDep, FileRobin, FileNotes, FileHidden,
      FileLocked, DirPy }

Targets == { <<"a", "p", "p">>, <<"o", "b", "j">> }

Trees == InjectiveSeqs(Entries, MaxFiles)

Init ==
    /\ NoAudit
    /\ target_path \in Targets
    /\ tree \in Trees
    /\ patterns = patterns_builtin
    /\ lists = [ref \in { SelfVulnerabilities } |-> <<>>]
    /\ results = <<>>
    /\ returned = <<>>
    /\ stdout = <<>>
    /\ NoLookup /\ NoScoreCall /\ NoAssessment

Next == ScanDirectory

Spec == Init /\ [][Next]_vars

(***************************************************************************)
(* The catalog with one rule that is no regular expression, as a test      *)
(* substitutes it (auditor.patterns is a plain attribute).                 *)
(***************************************************************************)
BadRule == [pattern |-> InvalidRule, description |-> "Malformed rule"]

\* patterns_builtin with BadRule put before rule r of category c
WithRuleAt(c, r) ==
    [patterns_builtin EXCEPT ![c].rules =
        SubSeq(@, 1, r - 1) \o << BadRule >> \o SubSeq(@, r, Len(@))]

BadCatalogs ==
    UNION { { WithRuleAt(c, r) : r \in 1..(Len(patterns_builtin[c].rules) + 1) } :
            c \in DOMAIN patterns_builtin }

InitCatalog ==
    /\ NoAudit
    /\ target_path \in Targets
    /\ tree \in InjectiveSeqs({ FileB, FileE, FileLocked, FileDep }, MaxFiles)
    /\ patterns \in BadCatalogs
    /\ lists = [ref \in { SelfVulnerabilities } |-> <<>>]
    /\ results = <<>>
    /\ returned = <<>>
    /\ stdout = <<>>
    /\ NoLookup /\ NoScoreCall /\ NoAssessment

SpecCatalog == InitCatalog /\ [][Next]_vars

(***************************************************************************)
(* Vocabulary of the properties.                                           *)
(***************************************************************************)
\* the finding sequence a result holds now
Findings(result) == lists[result.vulnerabilities]

\* the findings invocation k appended
Delta(k) ==
    SubSeq(returned[k], (IF k = 1 THEN 0 ELSE Len(returned[k - 1])) + 1,
           Len(returned[k]))

\* a regular file, its lower-cased extension in the allow-list, no skip token
\* a substring of its full path string
Scannable(entry) ==
    /\ entry.is_file
    /\ lower(suffix(entry.rel)) \in file_extensions
    /\ \A t \in DOMAIN skip_patterns :
          ~Contains(skip_patterns[t], target_path \o <<"/">> \o entry.rel)

\* an eligible file whose read raises
Faulty(entry) == Scannable(entry) /\ ~entry.readable

\* the (category, rule, line) triples of the catalog that match in entry
Matching(entry) ==
    { t \in UNION { { <<c, r, n>> : r \in DOMAIN patterns[c].rules,
                                    n \in DOMAIN entry.lines } :
                    c \in DOMAIN patterns } :
        re_search(patterns[t[1]].rules[t[2]].pattern, entry.lines[t[3]]) }

FindingOf(t, entry) ==
    [category    |-> patterns[t[1]].category,
     description |-> patterns[t[1]].rules[t[2]].description,
     file_path   |-> entry.rel,
     line_number |-> t[3]]

Reports(fs, want) ==
    \E p \in DOMAIN fs :
        /\ fs[p].category = want.category
        /\ fs[p].description = want.description
        /\ fs[p].file_path = want.file_path
        /\ fs[p].line_number = want.line_number

CountFor(fs, rel) == Cardinality({ p \in DOMAIN fs : fs[p].file_path = rel })

Printed(text, path) ==
    Cardinality({ p \in DOMAIN stdout : stdout[p] = [text |-> text, path |-> path] })

(***************************************************************************)
(* C1.  A result returned by scan_directory is immutable once returned:    *)
(* no later operation on the auditor changes its finding sequence, its     *)
(* finding count or its risk_score.                                        *)
(***************************************************************************)
C1_ResultImmutable ==
    [][\A i \in DOMAIN results :
          /\ results'[i] = results[i]
          /\ Findings(results[i])' = Findings(results[i])
          /\ Len(Findings(results[i]))' = Len(Findings(results[i]))]_vars

(***************************************************************************)
(* C2.  Every scan_directory invocation returns the findings of its own    *)
(* walk only: successive calls over the unchanged tree return equal        *)
(* finding sequences, equal finding counts and equal risk scores.          *)
(***************************************************************************)
C2_RescanEqual ==
    \A i, j \in DOMAIN results :
        /\ returned[i] = returned[j]
        /\ Len(returned[i]) = Len(returned[j])
        /\ results[i].risk_score = results[j].risk_score
        /\ results[i].total_files_scanned = results[j].total_files_scanned

(***************************************************************************)
(* C3.  Detector completeness.                                             *)
(* As claimed: for every eligible file, every rule of every category and   *)
(* every line of the file the rule matches, each result holds a finding    *)
(* with that category, that description, the file's relative path and the  *)
(* line's 1-based number.                                                  *)
(***************************************************************************)
C3_CompleteForEveryEligibleFile ==
    \A k \in DOMAIN returned : \A i \in DOMAIN tree :
        Scannable(tree[i]) =>
            \A t \in Matching(tree[i]) : Reports(returned[k], FindingOf(t, tree[i]))

\* C3, amended: the same for every eligible file that is read without error.
C3_CompleteForEveryFileRead ==
    \A k \in DOMAIN returned : \A i \in DOMAIN tree :
        (Scannable(tree[i]) /\ tree[i].readable) =>
            \A t \in Matching(tree[i]) : Reports(returned[k], FindingOf(t, tree[i]))

\* a scan has returned over a tree with a file read whose line matches a rule
\* only case-insensitively, and another on a line that is not the first
C3_Witness ==
    /\ results # <<>>
    /\ \E i \in DOMAIN tree :
          /\ Scannable(tree[i]) /\ tree[i].readable
          /\ \E t \in Matching(tree[i]) : tree[i].lines[t[3]] = LineSelect /\ t[3] > 1

(***************************************************************************)
(* C4.  No deduplication.                                                  *)
(* As claimed: the number of findings scan_file emits for a file equals    *)
(* the number of (category, rule, line) triples whose rule matches the     *)
(* line.                                                                   *)
(***************************************************************************)
C4_CountForEveryEligibleFile ==
    \A k \in DOMAIN returned : \A i \in DOMAIN tree :
        Scannable(tree[i]) =>
            CountFor(Delta(k), tree[i].rel) = Cardinality(Matching(tree[i]))

\* C4, amended: the same for every file scan_file reads without error.
C4_CountForEveryFileRead ==
    \A k \in DOMAIN returned : \A i \in DOMAIN tree :
        (Scannable(tree[i]) /\ tree[i].readable) =>
            CountFor(Delta(k), tree[i].rel) = Cardinality(Matching(tree[i]))

\* a scan has returned over a file read with a line that two rules match and
\* a rule that matches two lines
C4_Witness ==
    /\ results # <<>>
    /\ \E i \in DOMAIN tree :
          /\ Scannable(tree[i]) /\ tree[i].readable
          /\ \E t, u \in Matching(tree[i]) :
                t[3] = u[3] /\ <<t[1], t[2]>> # <<u[1], u[2]>>
          /\ \E t, u \in Matching(tree[i]) :
                t[3] # u[3] /\ <<t[1], t[2]>> = <<u[1], u[2]>>

(***************************************************************************)
(* C5.  Discovery order: in a result's finding sequence the findings of    *)
(* one file are contiguous, files appear in walk order, and within a file  *)
(* the findings are ordered by (category position in the catalog, rule     *)
(* position within the category, ascending line number).                   *)
(***************************************************************************)
WalkPos(rel) == CHOOSE i \in DOMAIN tree : tree[i].rel = rel

CategoryPos(category) == CHOOSE c \in DOMAIN patterns : patterns[c].category = category

RulePos(category, description) ==
    CHOOSE r \in DOMAIN patterns[CategoryPos(category)].rules :
        patterns[CategoryPos(category)].rules[r].description = description

DiscoveryKey(f) ==
    << WalkPos(f.file_path), CategoryPos(f.category),
       RulePos(f.category, f.description), f.line_number >>

\* a before-or-equal b, lexicographically
LexLeq(a, b) ==
    \/ a = b
    \/ \E i \in DOMAIN a : a[i] < b[i] /\ \A j \in 1..(i - 1) : a[j] = b[j]

InDiscoveryOrder(fs) ==
    \A p, q \in DOMAIN fs :
        p < q => LexLeq(DiscoveryKey(fs[p]), DiscoveryKey(fs[q]))

C5_DiscoveryOrder == \A k \in DOMAIN returned : InDiscoveryOrder(returned[k])

(***************************************************************************)
(* C6.  Scenario A: a scanned .js file with the line                       *)
(* query("SELECT * FROM users WHERE id=" + userId) yields exactly one      *)
(* finding for that line: category sql_injection, severity critical,       *)
(* identifier CWE-89, score 9.0, the line's 1-based number.                *)
(***************************************************************************)
C6_ScenarioA ==
    \A i \in DOMAIN tree : \A n \in DOMAIN tree[i].lines :
        ( /\ results # <<>>
          /\ Scannable(tree[i]) /\ tree[i].readable
          /\ suffix(tree[i].rel) = <<".", "j", "s">>
          /\ tree[i].lines[n] = LineScenarioA )
        => LET at == { p \in DOMAIN returned[1] :
                          /\ returned[1][p].file_path = tree[i].rel
                          /\ returned[1][p].line_number = n }
           IN  /\ Cardinality(at) = 1
               /\ \A p \in at :
                     /\ returned[1][p].category = "sql_injection"
                     /\ returned[1][p].severity = "critical"
                     /\ returned[1][p].cwe_id = "CWE-89"
                     /\ returned[1][p].cvss_score = 90

(***************************************************************************)
(* C7.  File eligibility: scan_directory scans a path if and only if it is *)
(* a regular file, its lower-cased extension is in the allow-list and no   *)
(* skip token is a substring of its full path string; when every file lies *)
(* under a node_modules/ segment the result has total_files_scanned = 0,   *)
(* no findings and risk score 0.0.                                         *)
(***************************************************************************)
UnderNodeModules(entry) ==
    Contains(<<"/">> \o skip_patterns[1] \o <<"/">>,
             <<"/">> \o target_path \o <<"/">> \o entry.rel)

C7_Eligibility ==
    /\ \A i \in DOMAIN tree :
          Printed("Scanning", tree[i].rel)
              = (IF Scannable(tree[i]) THEN Len(results) ELSE 0)
    /\ \A k \in DOMAIN results :
          results[k].total_files_scanned
              = Cardinality({ i \in DOMAIN tree : Scannable(tree[i]) })
    /\ (\A i \in DOMAIN tree : tree[i].is_file => UnderNodeModules(tree[i]))
          => \A k \in DOMAIN results :
                /\ results[k].total_files_scanned = 0
                /\ returned[k] = <<>>
                /\ results[k].risk_score = 0

\* a scan has returned over a tree with a file under node_modules/ that was
\* not scanned and a file with an upper-case extension that was
C7_Witness ==
    /\ results # <<>>
    /\ \E i, j \in DOMAIN tree :
          /\ tree[i].is_file /\ UnderNodeModules(tree[i])
          /\ Printed("Scanning", tree[i].rel) = 0
          /\ suffix(tree[j].rel) # lower(suffix(tree[j].rel))
          /\ Printed("Scanning", tree[j].rel) > 0

(***************************************************************************)
(* C8.  Per-file fault isolation: an eligible file whose read raises is    *)
(* skipped and contributes no findings, the walk continues with the        *)
(* remaining files, scan_directory still returns a result, and the other   *)
(* files contribute what they contribute to a scan of the tree without the *)
(* faulty file.                                                            *)
(***************************************************************************)
RECURSIVE Without(_, _)
Without(entries, drop) ==
    IF entries = <<>> THEN <<>>
    ELSE (IF Head(entries) \in drop THEN <<>> ELSE << Head(entries) >>)
         \o Without(Tail(entries), drop)

FaultyEntries == { tree[i] : i \in { j \in DOMAIN tree : Faulty(tree[j]) } }

\* the findings one walk over entries appends
FoundIn(entries) ==
    LET walk == WalkLoop(target_path, entries, patterns)
    IN  Flatten([i \in DOMAIN walk |-> walk[i].vulnerabilities])

HasInvalidRule ==
    \E c \in DOMAIN patterns : \E r \in DOMAIN patterns[c].rules :
        ~re_compiles(patterns[c].rules[r].pattern)

C9_InvalidRuleFatal ==
    HasInvalidRule =>
        /\ results = <<>>
        /\ \A p \in DOMAIN stdout : stdout[p].text # "Error scanning"

(***************************************************************************)
(* C10.  Every finding has the severity, identifier and remediation of its *)
(* category and the score of its severity (critical 9.0, high 7.5, medium  *)
(* 5.0, low 2.5); two findings of one category never differ in severity,   *)
(* identifier or score.                                                    *)
(***************************************************************************)
CategoriesOf(severity) ==
    CASE severity = "critical" -> { "xss", "sql_injection", "command_injection" }
      [] severity = "high"     -> { "ssrf", "path_traversal", "hardcoded_secrets",
                                    "insecure_deserialization" }
      [] severity = "medium"   -> { "weak_crypto", "information_disclosure" }
      [] OTHER                 -> {}

ScoreOf(severity) ==
    CASE severity = "critical" -> 90
      [] severity = "high"     -> 75
      [] severity = "medium"   -> 50
      [] severity = "low"      -> 25

C10_CatalogDerived ==
    LET fs == lists[SelfVulnerabilities]
    IN  /\ \A p \in DOMAIN fs :
              /\ fs[p].severity \in { "critical", "high", "medium", "low" }
              /\ fs[p].category \in CategoriesOf(fs[p].severity)
              /\ fs[p].cvss_score = ScoreOf(fs[p].severity)
        /\ \A p, q \in DOMAIN fs :
              fs[p].category = fs[q].category =>
                  /\ fs[p].severity = fs[q].severity
                  /\ fs[p].cwe_id = fs[q].cwe_id
                  /\ fs[p].remediation = fs[q].remediation
                  /\ fs[p].cvss_score = fs[q].cvss_score

\* a scan has found findings of all three severities of the catalog
C10_Witness ==
    \A s \in { "critical", "high", "medium" } :
        \E p \in DOMAIN lists[SelfVulnerabilities] :
            lists[SelfVulnerabilities][p].severity = s

(***************************************************************************)
(* The catalog lookups called on their own.  The four lookups are methods  *)
(* of the auditor and take any string: a category that the catalog does    *)
(* not hold reaches them from a caller, or from scan_file once             *)
(* auditor.patterns was given a category of its own.  The score is looked  *)
(* up from the severity, as scan_file does for a finding.                  *)
(***************************************************************************)
CatalogCategories == { patterns_builtin[c].category : c \in DOMAIN patterns_builtin }

LookupCategories ==
    CatalogCategories \cup { "csrf", "open_redirect", "XSS", "" }

Lookup ==
    /\ Len(looked_up) < MaxLookups
    /\ \E category \in LookupCategories :
          looked_up' = Append(looked_up,
              [category    |-> category,
               severity    |-> _get_severity(category),
               remediation |-> _get_remediation(category),
               cwe_id      |-> _get_cwe_id(category),
               cvss_score  |-> _get_cvss_score(_get_severity(category))])
    /\ UNCHANGED <<target_path, tree, patterns, lists, results, returned, stdout,
                   findings, score, audit_input, industry_arg, metrics, summary,
                   comprehensive_results>>

\* an auditor just constructed, over a target with nothing in it
InitLookup ==
    /\ NoAudit
    /\ target_path \in Targets
    /\ tree = <<>>
    /\ patterns = patterns_builtin
    /\ lists = [ref \in { SelfVulnerabilities } |-> <<>>]
    /\ results = <<>>
    /\ returned = <<>>
    /\ stdout = <<>>
    /\ NoLookup /\ NoScoreCall /\ NoAssessment

NextLookup == Lookup

SpecLookup == InitLookup /\ [][NextLookup]_vars

(***************************************************************************)
(* C11.  Unknown categories.                                               *)
(* As claimed: for a category that is not one of the nine catalog          *)
(* categories the lookups return severity low, the identifier "unknown"    *)
(* and the generic remediation text, and therefore the score 2.5.          *)
(* As the code has it: the same, with the identifier "CWE-Unknown".        *)
(***************************************************************************)
GenericRemediation == "Review and secure the identified code."

C11_UnknownCategoryIdentifierUnknown ==
    \A i \in DOMAIN looked_up :
        looked_up[i].category \notin CatalogCategories =>
            /\ looked_up[i].severity = "low"
            /\ looked_up[i].cwe_id = "unknown"
            /\ looked_up[i].remediation = GenericRemediation
            /\ looked_up[i].cvss_score = 25

C11_UnknownCategoryDefaults ==
    \A i \in DOMAIN looked_up :
        looked_up[i].category \notin CatalogCategories =>
            /\ looked_up[i].severity = "low"
            /\ looked_up[i].cwe_id = "CWE-Unknown"
            /\ looked_up[i].remediation = GenericRemediation
            /\ looked_up[i].cvss_score = 25

C11_Witness ==
    \E i \in DOMAIN looked_up :
        /\ looked_up[i].category \in { "csrf", "XSS", "" }
        /\ looked_up[i].severity = "low"

(***************************************************************************)
(* calculate_risk_score called on its own: one call on a list of findings, *)
(* of which it reads the severity.  'info' is a severity outside the       *)
(* weight table.                                                           *)
(***************************************************************************)
ScoredSeverities == { "critical", "high", "medium", "low", "info" }

RECURSIVE SeqsUpTo(_, _)
SeqsUpTo(S, n) ==
    IF n = 0 THEN { <<>> }
    ELSE LET shorter == SeqsUpTo(S, n - 1)
         IN  shorter \cup { Append(s, x) : s \in shorter, x \in S }

FindingLists == SeqsUpTo({ [severity |-> s] : s \in ScoredSeverities }, MaxScored)

CalculateRiskScore ==
    /\ score = <<>>
    /\ score' = << calculate_risk_score(findings) >>
    /\ UNCHANGED <<target_path, tree, patterns, lists, results, returned, stdout,
                   looked_up, findings, audit_input, industry_arg, metrics,
                   summary,
                   comprehensive_results>>

InitScore ==
    /\ NoAudit
    /\ target_path = <<"a", "p", "p">>
    /\ tree = <<>>
    /\ patterns = patterns_builtin
    /\ lists = [ref \in { SelfVulnerabilities } |-> <<>>]
    /\ results = <<>>
    /\ returned = <<>>
    /\ stdout = <<>>
    /\ findings \in FindingLists
    /\ score = <<>>
    /\ NoLookup /\ NoAssessment

NextScore == CalculateRiskScore

SpecScore == InitScore /\ [][NextScore]_vars

\* the list s repeated k times
RECURSIVE Repeat(_, _)
Repeat(s, k) == IF k = 0 THEN <<>> ELSE s \o Repeat(s, k - 1)

Abs(x) == IF x < 0 THEN -x ELSE x

(***************************************************************************)
(* C12.  For every list of findings whose severities are among critical,   *)
(* high, medium, low, calculate_risk_score returns the mean of the         *)
(* severity weights 10/7/4/1 rounded to one decimal (the tenth nearest to  *)
(* the mean), a value in [0,10], and the value is 0.0 if and only if the   *)
(* list is empty.                                                          *)
(***************************************************************************)
WeightOf(severity) ==
    CASE severity = "critical" -> 10
      [] severity = "high"     -> 7
      [] severity = "medium"   -> 4
      [] severity = "low"      -> 1

RECURSIVE WeightSum(_)
WeightSum(fs) == IF fs = <<>> THEN 0 ELSE WeightOf(Head(fs).severity) + WeightSum(Tail(fs))

FourSeverities(fs) ==
    \A i \in DOMAIN fs : fs[i].severity \in { "critical", "high", "medium", "low" }

C12_WeightedMean ==
    (score # <<>> /\ FourSeverities(findings)) =>
        LET n == Len(findings)
            r == score[1]
        IN  /\ r \in 0..100
            /\ (r = 0) <=> (findings = <<>>)
            /\ n > 0 => 2 * Abs(r * n - 10 * WeightSum(findings)) <= n

C12_Witness ==
    /\ score = << 55 >>
    /\ Len(findings) = 4
    /\ FourSeverities(findings)

(***************************************************************************)
(* C13.  The risk score is insensitive to finding volume: a non-empty      *)
(* list repeated k >= 1 times scores as the list does; one critical        *)
(* finding and one hundred critical findings both score 10.0.              *)
(***************************************************************************)
C13_VolumeInsensitive ==
    /\ (score # <<>> /\ findings # <<>>) =>
          \A k \in 1..MaxRepeat :
              calculate_risk_score(Repeat(findings, k)) = score[1]
    /\ (score # <<>> /\ findings = << [severity |-> "critical"] >>) =>
          /\ score[1] = 100
          /\ calculate_risk_score(Repeat(findings, 100)) = 100

C13_Witness ==
    /\ score = << 100 >>
    /\ findings = << [severity |-> "critical"] >>

(***************************************************************************)
(* Business risk calculator: audit/risk_calculator.py                      *)
(* (BusinessRiskCalculator).                                               *)
(*                                                                         *)
(* Conventions.                                                            *)
(*  - A dict is a function on its keys; dict.get is Get.                   *)
(*  - Category base impacts, severity multipliers, industry factors, the   *)
(*    business-impact score and the timeline are in tenths (9.0 is 90,     *)
(*    0.8 is 8); a per-finding impact, the product of two of them, is in   *)
(*    hundredths (9.0 * 0.8 is 720).                                       *)
(*  - The base risk score in audit_data is in hundredths (7.2 is 720,      *)
(*    7.99 is 799); the adjusted risk score, its product with an industry  *)
(*    factor, is in thousandths (min(10.0, 7.2 * 1.2) = 8.64 is 8640).     *)
(*  - Money is in whole dollars.  The formatted strings of the executive   *)
(*    summary are kept as the numbers they print.                          *)
(***************************************************************************)
Get(dict, key, default) == IF key \in DOMAIN dict THEN dict[key] ELSE default

Min(a, b) == IF a <= b THEN a ELSE b

\* the sum of the values of a dict
RECURSIVE SumValues(_)
SumValues(dict) ==
    IF DOMAIN dict = {} THEN 0
    ELSE LET k == CHOOSE k \in DOMAIN dict : TRUE
         IN  dict[k] + SumValues([j \in DOMAIN dict \ { k } |-> dict[j]])

RECURSIVE SumSeq(_)
SumSeq(s) == IF s = <<>> THEN 0 ELSE Head(s) + SumSeq(Tail(s))

\* self.remediation_costs.get(severity, 1000)
remediation_costs(severity) ==
    CASE severity = "critical" -> 15000
      [] severity = "high"     -> 8000
      [] severity = "medium"   -> 3000
      [] severity = "low"      -> 1000
      [] OTHER                 -> 1000

\* self.industry_factors.get(key, 1.0), in tenths
\* industry_factors with a discount for consumer products
industry_factors_ConsumerDiscount(key) ==
    CASE key = <<"f", "i", "n", "t", "e", "c", "h">>    -> 18
      [] key = <<"h", "e", "a", "l", "t", "h", "c", "a", "r", "e">> -> 17
      [] key = <<"e", "c", "o", "m", "m", "e", "r", "c", "e">>  -> 14
      [] key = <<"e", "n", "t", "e", "r", "p", "r", "i", "s", "e">> -> 12
      [] key = <<"c", "o", "n", "s", "u", "m", "e", "r">>   -> 8
      [] OTHER -> 10

industry_factors(key) ==
    CASE key = <<"f", "i", "n", "t", "e", "c", "h">>    -> 18
      [] key = <<"h", "e", "a", "l", "t", "h", "c", "a", "r", "e">> -> 17
      [] key = <<"e", "c", "o", "m", "m", "e", "r", "c", "e">>  -> 14
      [] key = <<"e", "n", "t", "e", "r", "p", "r", "i", "s", "e">> -> 12
      [] key = <<"c", "o", "n", "s", "u", "m", "e", "r">>   -> 10
      [] OTHER -> 10

\* costs[severity] for each severity of the distribution, then costs['total']
\* assigned last: it replaces the entry of a severity that is named 'total'
calculate_remediation_cost(severity_distribution) ==
    LET costs == [severity \in DOMAIN severity_distribution |->
                     remediation_costs(severity) * severity_distribution[severity]]
        total_cost == SumValues(costs)
    IN  [key \in DOMAIN costs \cup { "total" } |->
            IF key = "total" THEN total_cost ELSE costs[key]]

\* high_impact_categories.get(category, 3.0), in tenths
high_impact_categories(category) ==
    CASE category = "sql_injection"            -> 90
      [] category = "command_injection"        -> 90
      [] category = "xss"                      -> 70
      [] category = "ssrf"                     -> 60
      [] category = "hardcoded_secrets"        -> 80
      [] category = "insecure_deserialization" -> 75
      [] category = "path_traversal"           -> 65
      [] OTHER                                 -> 30

\* severity_multiplier.get(severity, 0.3), in tenths
severity_multiplier(severity) ==
    CASE severity = "critical" -> 10
      [] severity = "high"     -> 8
      [] severity = "medium"   -> 6
      [] severity = "low"      -> 3
      [] OTHER                 -> 3

\* base_impact * severity_multiplier of one finding summary, in hundredths
impact(vuln) ==
    high_impact_categories(Get(vuln, "category", ""))
        * severity_multiplier(Get(vuln, "severity", "low"))

\* s with its first occurrence of the largest element moved to the front
RECURSIVE SortDescending(_)
SortDescending(s) ==
    IF s = <<>> THEN <<>>
    ELSE LET i == CHOOSE i \in DOMAIN s :
                      /\ \A j \in DOMAIN s : s[j] <= s[i]
                      /\ \A j \in 1..(i - 1) : s[j] < s[i]
         IN  << s[i] >> \o SortDescending(SubSeq(s, 1, i - 1) \o SubSeq(s, i + 1, Len(s)))

\* round(sum(top_impacts) / len(top_impacts), 1) where the exact mean lies
\* halfway between two tenths: the float sum decides.  The lists of
\* impacts, among those of the finding summaries below, whose float mean
\* rounds up (evaluated with the floats of the code, in sorted order); the
\* float mean of every other halfway list rounds down.
FloatMeanRoundsUp ==
    { <<900, 90>>, <<560, 210>>, <<520, 210>>, <<210, 210, 195>>,
      <<195, 180, 90>>, <<900, 900, 900, 560>>, <<900, 900, 900, 520>>,
      <<900, 900, 560, 180>>, <<900, 900, 210, 210>>,
      <<900, 560, 560, 560>>, <<900, 560, 560, 520>>,
      <<900, 560, 180, 180>>, <<900, 520, 180, 180>>,
      <<900, 210, 210, 180>>, <<900, 180, 90, 90>>, <<560, 560, 560, 180>>,
      <<560, 560, 520, 180>>, <<560, 560, 210, 210>>,
      <<560, 560, 210, 90>>, <<560, 560, 90, 90>>, <<560, 520, 520, 180>>,
      <<560, 520, 210, 210>>, <<560, 520, 210, 90>>, <<560, 520, 90, 90>>,
      <<560, 180, 180, 180>>, <<520, 520, 520, 180>>,
      <<520, 520, 210, 90>>, <<520, 520, 90, 90>>, <<520, 180, 180, 180>>,
      <<180, 180, 90, 90>>, <<900, 900, 900, 195, 180>>,
      <<900, 900, 560, 520, 195>>, <<900, 900, 520, 210, 195>>,
      <<900, 560, 560, 560, 195>>, <<900, 560, 560, 210, 195>>,
      <<900, 560, 210, 210, 195>>, <<900, 560, 195, 180, 90>>,
      <<900, 520, 195, 180, 180>>, <<900, 210, 210, 210, 195>>,
      <<560, 560, 520, 195, 90>>, <<560, 560, 195, 180, 180>>,
      <<560, 520, 520, 195, 180>>, <<560, 195, 90, 90, 90>>,
      <<520, 210, 210, 195, 90>>, <<210, 195, 90, 90, 90>> }

\* the mean of top_impacts (hundredths) rounded to tenths
RoundMean(top_impacts) ==
    LET total == SumSeq(top_impacts)
        den   == 10 * Len(top_impacts)
        fl    == total \div den
        rem   == total % den
    IN  IF 2 * rem > den \/ (2 * rem = den /\ top_impacts \in FloatMeanRoundsUp)
        THEN fl + 1 ELSE fl

\* calculate_business_impact_score without the early return: no findings
\* score as one finding of the default impact and multiplier
calculate_business_impact_score_NoEarlyReturn(vulnerability_data) ==
    IF vulnerability_data = <<>> THEN RoundMean(<< 30 * 3 >>)
    ELSE LET impact_scores == [i \in DOMAIN vulnerability_data |-> impact(vulnerability_data[i])]
             sorted        == SortDescending(impact_scores)
             top_impacts   == SubSeq(sorted, 1, Min(5, Len(sorted)))
         IN  RoundMean(top_impacts)

\* calculate_business_impact_score taking the first five impacts as they
\* come, without sorting them
calculate_business_impact_score_Unsorted(vulnerability_data) ==
    IF vulnerability_data = <<>> THEN 0
    ELSE LET impact_scores == [i \in DOMAIN vulnerability_data |-> impact(vulnerability_data[i])]
             top_impacts   == SubSeq(impact_scores, 1, Min(5, Len(impact_scores)))
         IN  RoundMean(SortDescending(top_impacts))

\* calculate_business_impact_score averaging every impact, not the top five
calculate_business_impact_score_All(vulnerability_data) ==
    IF vulnerability_data = <<>> THEN 0
    ELSE LET impact_scores == [i \in DOMAIN vulnerability_data |-> impact(vulnerability_data[i])]
             top_impacts   == SortDescending(impact_scores)
         IN  RoundMean(top_impacts)

\* in tenths
calculate_business_impact_score(vulnerability_data) ==
    IF vulnerability_data = <<>> THEN 0
    ELSE LET impact_scores == [i \in DOMAIN vulnerability_data |-> impact(vulnerability_data[i])]
             sorted        == SortDescending(impact_scores)
             top_impacts   == SubSeq(sorted, 1, Min(5, Len(sorted)))
         IN  RoundMean(top_impacts)

\* timeline_days.get(severity, 7), days for one finding
timeline_days(severity) ==
    CASE severity = "critical" -> 30
      [] severity = "high"     -> 14
      [] severity = "medium"   -> 7
      [] severity = "low"      -> 2
      [] OTHER                 -> 7

\* estimate_timeline without the halving for parallel work
estimate_timeline_Serial(severity_distribution) ==
    LET total_days == SumValues([severity \in DOMAIN severity_distribution |->
                          timeline_days(severity) * severity_distribution[severity]])
    IN  RoundHalfEven(total_days * 12 * 10, 10 * 30)

\* round(total_days / 2 * 1.2 / 30, 1), in tenths: the exact quotient is a
\* multiple of 0.02 and never halfway between two tenths
estimate_timeline(severity_distribution) ==
    LET total_days == SumValues([severity \in DOMAIN severity_distribution |->
                          timeline_days(severity) * severity_distribution[severity]])
    IN  RoundHalfEven(total_days * 12 * 10, 2 * 10 * 30)

\* round(base_exposure * factor) where the exact product lies halfway
\* between two dollars: the float product decides.  The triples (risk score
\* in thousandths, business impact in tenths, factor in tenths), among those
\* of the assessments below, whose float product rounds up (evaluated with
\* the floats of the code); every other halfway product rounds down.
FloatExposureRoundsUp == { <<6783, 53, 5>>, <<7565, 53, 5>>, <<7565, 53, 35>> }

\* round(risk_score * business_impact * 10000 * factor) in dollars:
\* thousandths times tenths times tenths, over ten
RoundExposure(risk_score, business_impact, factor) ==
    LET tenths == risk_score * business_impact * factor
        fl     == tenths \div 10
        rem    == tenths % 10
    IN  IF rem > 5 \/ (rem = 5 /\ <<risk_score, business_impact, factor>> \in FloatExposureRoundsUp)
        THEN fl + 1 ELSE fl

\* calculate_financial_exposure cutting the cents off, not rounding
calculate_financial_exposure_Truncated(risk_score, business_impact) ==
    [minimum  |-> (risk_score * business_impact * 5) \div 10,
     expected |-> (risk_score * business_impact * 12) \div 10,
     maximum  |-> (risk_score * business_impact * 35) \div 10]

\* round(base_exposure * 0.5), round(... * 1.2), round(... * 3.5), with
\* base_exposure = risk_score * business_impact * 10000
calculate_financial_exposure(risk_score, business_impact) ==
    [minimum  |-> RoundExposure(risk_score, business_impact, 5),
     expected |-> RoundExposure(risk_score, business_impact, 12),
     maximum  |-> RoundExposure(risk_score, business_impact, 35)]

\* SeverityDistribution leaving out the findings that carry no severity
SeverityDistribution_SkipMissing(vulnerabilities) ==
    LET with == { i \in DOMAIN vulnerabilities : "severity" \in DOMAIN vulnerabilities[i] }
    IN  [s \in { vulnerabilities[i].severity : i \in with } |->
            Cardinality({ i \in with : vulnerabilities[i].severity = s })]

\* the loop of generate_risk_assessment that counts the findings by
\* vuln.get('severity', 'low')
SeverityDistribution(vulnerabilities) ==
    LET severity(i) == Get(vulnerabilities[i], "severity", "low")
    IN  [s \in { severity(i) : i \in DOMAIN vulnerabilities } |->
            Cardinality({ i \in DOMAIN vulnerabilities : severity(i) = s })]

\* industry_factor looking the industry up as it is written
industry_factor_CaseSensitive(industry) == industry_factors(industry)

industry_factor(industry) == industry_factors(lower(industry))

\* adjusted_risk_score without the cap
adjusted_risk_score_Uncapped(risk_score, factor) == risk_score * factor

\* min(10.0, risk_score * industry_factor): hundredths times tenths, in
\* thousandths
adjusted_risk_score(risk_score, factor) == Min(10000, risk_score * factor)

RiskMetrics(vulnerability_count, severity_distribution, risk_score, business_impact_score, remediation_cost, timeline_months) ==
    [vulnerability_count   |-> vulnerability_count,
     severity_distribution |-> severity_distribution,
     risk_score            |-> risk_score,
     business_impact_score |-> business_impact_score,
     remediation_cost      |-> remediation_cost,
     timeline_months       |-> timeline_months]

generate_risk_assessment(audit_data, industry) ==
    LET vulnerabilities       == Get(audit_data, "vulnerabilities", <<>>)
        severity_distribution == SeverityDistribution(vulnerabilities)
        risk_score            == Get(audit_data, "risk_score", 0)
        business_impact       == calculate_business_impact_score(vulnerabilities)
        costs                 == calculate_remediation_cost(severity_distribution)
        timeline              == estimate_timeline(severity_distribution)
    IN  RiskMetrics(Len(vulnerabilities), severity_distribution,
                    adjusted_risk_score(risk_score, industry_factor(industry)),
                    business_impact, costs, timeline)

\* risk_level with the thresholds excluded
risk_level_Strict(risk_score) ==
    IF risk_score > 8000 THEN "CRITICAL"
    ELSE IF risk_score > 6000 THEN "HIGH"
    ELSE IF risk_score > 4000 THEN "MEDIUM"
    ELSE "LOW"

\* the if/elif chain of generate_executive_summary, on thousandths
risk_level(risk_score) ==
    IF risk_score >= 8000 THEN "CRITICAL"
    ELSE IF risk_score >= 6000 THEN "HIGH"
    ELSE IF risk_score >= 4000 THEN "MEDIUM"
    ELSE "LOW"

recommendation(level) ==
    CASE level = "CRITICAL" ->
           "HIGH RISK - Recommend against acquisition without major security remediation commitment"
      [] level = "HIGH" ->
           "PROCEED WITH CAUTION - Significant security investment required"
      [] level = "MEDIUM" ->
           "ACCEPTABLE WITH CONDITIONS - Security improvements needed"
      [] level = "LOW" ->
           "LOW RISK - Minor security enhancements recommended"

generate_executive_summary(risk_metrics) ==
    [risk_level                   |-> risk_level(risk_metrics.risk_score),
     risk_score                   |-> risk_metrics.risk_score,
     recommendation               |-> recommendation(risk_level(risk_metrics.risk_score)),
     critical_vulnerabilities     |-> Get(risk_metrics.severity_distribution, "critical", 0),
     high_vulnerabilities         |-> Get(risk_metrics.severity_distribution, "high", 0),
     total_vulnerabilities        |-> risk_metrics.vulnerability_count,
     estimated_remediation_cost   |-> risk_metrics.remediation_cost["total"],
     estimated_timeline           |-> risk_metrics.timeline_months,
     potential_financial_exposure |->
         calculate_financial_exposure(risk_metrics.risk_score,
                                      risk_metrics.business_impact_score),
     business_impact_score        |-> risk_metrics.business_impact_score]

(***************************************************************************)
(* The calls of the calculator: one generate_risk_assessment, then one     *)
(* generate_executive_summary on what it returned.                         *)
(***************************************************************************)
\* GenerateRiskAssessment with calculate_business_impact_score sorting the
\* findings it is handed, not the list of their impacts
GenerateRiskAssessment_SortsFindings ==
    /\ metrics = <<>>
    /\ metrics' = << generate_risk_assessment(audit_input, industry_arg) >>
    /\ audit_input' =
          IF "vulnerabilities" \in DOMAIN audit_input
          THEN LET vs     == audit_input.vulnerabilities
                   higher(i, j) ==
                       \/ impact(vs[i]) > impact(vs[j])
                       \/ (impact(vs[i]) = impact(vs[j]) /\ i < j)
                   place(i) == 1 + Cardinality({ j \in DOMAIN vs : higher(j, i) })
               IN  [audit_input EXCEPT !.vulnerabilities =
                       [p \in DOMAIN vs |-> vs[CHOOSE i \in DOMAIN vs : place(i) = p]]]
          ELSE audit_input
    /\ UNCHANGED <<target_path, tree, patterns, lists, results, returned, stdout,
                   looked_up, findings, score, industry_arg, summary,
                   comprehensive_results>>

GenerateRiskAssessment ==
    /\ metrics = <<>>
    /\ metrics' = << generate_risk_assessment(audit_input, industry_arg) >>
    /\ UNCHANGED <<target_path, tree, patterns, lists, results, returned, stdout,
                   looked_up, findings, score, audit_input, industry_arg, summary,
                   comprehensive_results>>

GenerateExecutiveSummary ==
    /\ metrics # <<>>
    /\ summary = <<>>
    /\ summary' = << generate_executive_summary(metrics[1]) >>
    /\ UNCHANGED <<target_path, tree, patterns, lists, results, returned, stdout,
                   looked_up, findings, score, audit_input, industry_arg, metrics,
                   comprehensive_results>>

\* finding summaries: dicts of which the calculator reads severity and
\* category, either of which may be missing or outside its tables
SummaryCritical   == [severity |-> "critical", category |-> "sql_injection"]
SummaryHigh       == [severity |-> "high", category |-> "path_traversal"]
SummaryMedium     == [severity |-> "medium", category |-> "weak_crypto"]
SummaryHighXss    == [severity |-> "high", category |-> "xss"]
SummaryNoSeverity == [category |-> "path_traversal"]
SummaryNoCategory == [severity |-> "low"]
SummaryTotal      == [severity |-> "total", category |-> "xss"]

CoreSummaries == { SummaryCritical, SummaryHigh, SummaryMedium }

Summaries ==
    CoreSummaries \cup { SummaryHighXss, SummaryNoSeverity, SummaryNoCategory,
                         SummaryTotal }

\* short lists of any summaries, longer ones of the three core summaries
SummaryLists ==
    SeqsUpTo(Summaries, MaxShort) \cup SeqsUpTo(CoreSummaries, MaxVulns)

\* Scenario C: critical x 1, high x 2, medium x 1
ScenarioCFindings == << SummaryCritical, SummaryHigh, SummaryHigh, SummaryMedium >>

\* base risk scores, in hundredths
BaseScores ==
    { 0, 220, 333, 399, 400, 444, 445, 500, 599, 600, 720, 799, 800, 1000 }

Industries ==
    { <<"f", "i", "n", "t", "e", "c", "h">>, <<"F", "i", "n", "T", "e", "c", "h">>, <<"h", "e", "a", "l", "t", "h", "c", "a", "r", "e">>, <<"H", "E", "A", "L", "T", "H", "C", "A", "R", "E">>, <<"e", "c", "o", "m", "m", "e", "r", "c", "e">>,
      <<"E", "c", "o", "m", "m", "e", "r", "c", "e">>, <<"e", "n", "t", "e", "r", "p", "r", "i", "s", "e">>, <<"c", "o", "n", "s", "u", "m", "e", "r">>, <<"C", "o", "n", "s", "u", "m", "e", "r">>, <<"r", "e", "t", "a", "i", "l">>,
      <<"f", "i", "n", "-", "t", "e", "c", "h">>, <<>> }

\* the default of the industry parameter
DefaultIndustry == <<"e", "n", "t", "e", "r", "p", "r", "i", "s", "e">>

\* the (audit_data, industry) pairs: every finding list with the sample
\* base score under the default industry, and every base score, or none,
\* with every industry over no findings and over those of Scenario C
AssessmentCalls ==
    { [audit_data |-> [vulnerabilities |-> l, risk_score |-> 720],
       industry   |-> DefaultIndustry] : l \in SummaryLists }
    \cup { [audit_data |-> [vulnerabilities |-> ScenarioCFindings, risk_score |-> b],
            industry   |-> i] : b \in BaseScores, i \in Industries }
    \cup { [audit_data |-> [risk_score |-> b], industry |-> i] :
              b \in BaseScores, i \in Industries }
    \cup { [audit_data |-> [vulnerabilities |-> ScenarioCFindings], industry |-> i] :
              i \in Industries }
    \cup { [audit_data |-> <<>>, industry |-> i] : i \in Industries }

InitRisk ==
    /\ NoAudit
    /\ target_path = <<>>
    /\ tree = <<>>
    /\ patterns = <<>>
    /\ lists = <<>>
    /\ results = <<>>
    /\ returned = <<>>
    /\ stdout = <<>>
    /\ NoLookup /\ NoScoreCall
    /\ \E call \in AssessmentCalls :
          /\ audit_input = call.audit_data
          /\ industry_arg = call.industry
    /\ metrics = <<>>
    /\ summary = <<>>

NextRisk == GenerateRiskAssessment \/ GenerateExecutiveSummary

SpecRisk == InitRisk /\ [][NextRisk]_vars

(***************************************************************************)
(* Vocabulary of the calculator's properties.                              *)
(***************************************************************************)
\* the findings the assessment was made of
Assessed == Get(audit_input, "vulnerabilities", <<>>)

\* the base risk score it was made of, in hundredths
BaseScore == Get(audit_input, "risk_score", 0)

(***************************************************************************)
(* C14.  For every input to generate_risk_assessment the counts of         *)
(* RiskMetrics.severity_distribution sum exactly to                        *)
(* RiskMetrics.vulnerability_count, the mapping has a key only for         *)
(* severities that occur (every count is at least 1), and a finding        *)
(* without a severity is counted under 'low'.                              *)
(***************************************************************************)
C14_DistributionCounts ==
    metrics # <<>> =>
        LET dist   == metrics[1].severity_distribution
            stated == { i \in DOMAIN Assessed : "severity" \in DOMAIN Assessed[i] }
            counted(s) ==
                Cardinality({ i \in stated : Assessed[i].severity = s })
                + (IF s = "low" THEN Cardinality(DOMAIN Assessed \ stated) ELSE 0)
        IN  /\ metrics[1].vulnerability_count = Len(Assessed)
            /\ SumValues(dist) = metrics[1].vulnerability_count
            /\ \A s \in DOMAIN dist : dist[s] >= 1 /\ dist[s] = counted(s)
            /\ \A i \in stated : Assessed[i].severity \in DOMAIN dist
            /\ (stated # DOMAIN Assessed) => "low" \in DOMAIN dist

C14_Witness ==
    /\ metrics # <<>>
    /\ Assessed = << SummaryNoSeverity, SummaryNoCategory, SummaryNoSeverity >>
    /\ metrics[1].severity_distribution = [low |-> 3]

(***************************************************************************)
(* C15.  For every severity distribution calculate_remediation_cost        *)
(* returns for each severity its base cost (critical 15000, high 8000,     *)
(* medium 3000, low 1000, any other 1000) times its count, and             *)
(* cost['total'] equals the sum of those per-severity costs.               *)
(***************************************************************************)
BaseCost(severity) ==
    CASE severity = "critical" -> 15000
      [] severity = "high"     -> 8000
      [] severity = "medium"   -> 3000
      [] OTHER                 -> 1000

C15_CostPerSeverity ==
    metrics # <<>> =>
        LET dist == metrics[1].severity_distribution
            cost == metrics[1].remediation_cost
        IN  /\ \A s \in DOMAIN dist :
                  s \in DOMAIN cost /\ cost[s] = BaseCost(s) * dist[s]
            /\ "total" \in DOMAIN cost
            /\ cost["total"] = SumValues([s \in DOMAIN dist |-> BaseCost(s) * dist[s]])

(***************************************************************************)
(* C16.  calculate_business_impact_score returns a value in [0,10] equal   *)
(* to the mean, rounded to one decimal (a tenth nearest to it), of the     *)
(* min(5, n) highest per-finding impacts (category base impact times       *)
(* severity multiplier): with n >= 5 findings, adding a finding whose      *)
(* impact does not exceed the current fifth-highest leaves the score       *)
(* unchanged, and with n < 5 all n impacts are averaged.                   *)
(***************************************************************************)
\* the largest sum of m of the impacts
TopSum(impacts, m) ==
    LET sums == { SumValues([i \in chosen |-> impacts[i]]) :
                    chosen \in { c \in SUBSET DOMAIN impacts : Cardinality(c) = m } }
    IN  CHOOSE t \in sums : \A u \in sums : u <= t

\* the m-th highest of the impacts
Highest(impacts, m) == TopSum(impacts, m) - TopSum(impacts, m - 1)

DaysPerFinding(severity) ==
    CASE severity = "critical" -> 30
      [] severity = "high"     -> 14
      [] severity = "medium"   -> 7
      [] severity = "low"      -> 2
      [] OTHER                 -> 7

C17_Timeline ==
    metrics # <<>> =>
        LET dist       == metrics[1].severity_distribution
            total_days == SumValues([s \in DOMAIN dist |-> DaysPerFinding(s) * dist[s]])
            tenths     == metrics[1].timeline_months
        IN  /\ 2 * Abs(50 * tenths - 10 * total_days) <= 50
            /\ dist = [critical |-> 1, high |-> 2, medium |-> 1] =>
                  /\ tenths = 13
                  /\ metrics[1].remediation_cost["total"] = 34000

C17_Witness ==
    /\ metrics # <<>>
    /\ metrics[1].severity_distribution = [critical |-> 1, high |-> 2, medium |-> 1]
    /\ industry_arg = <<"f", "i", "n", "t", "e", "c", "h">>

(***************************************************************************)
(* C18.  For every base risk score in [0,10] and every industry value the  *)
(* adjusted risk score in RiskMetrics equals                               *)
(* min(10.0, base times the industry multiplier) and so lies in [0,10];    *)
(* at base 10.0 with multiplier 1.8 it is exactly 10.0.                    *)
(***************************************************************************)
C18_AdjustedScore ==
    (metrics # <<>> /\ BaseScore \in 0..1000) =>
        LET product == BaseScore * industry_factor(industry_arg)
        IN  /\ metrics[1].risk_score = (IF product > 10000 THEN 10000 ELSE product)
            /\ metrics[1].risk_score \in 0..10000
            /\ (BaseScore = 1000 /\ industry_factor(industry_arg) = 18) =>
                  metrics[1].risk_score = 10000

C18_Witness ==
    /\ metrics # <<>>
    /\ BaseScore = 1000
    /\ industry_arg = <<"F", "i", "n", "T", "e", "c", "h">>
    /\ metrics[1].risk_score = 10000

(***************************************************************************)
(* C19.  The industry multiplier lookup is case-insensitive and total      *)
(* over strings: fintech, healthcare, ecommerce, enterprise and consumer   *)
(* in any letter case give 1.8, 1.7, 1.4, 1.2 and 1.0, and every other     *)
(* string gives 1.0, no call failing.                                      *)
(***************************************************************************)
\* a and b are the same string up to the case of their letters
SameIgnoringCase(a, b) ==
    /\ Len(a) = Len(b)
    /\ \A i \in DOMAIN a : LowerChar(a[i]) = LowerChar(b[i])

Multiplier(industry) ==
    IF SameIgnoringCase(industry, <<"f", "i", "n", "t", "e", "c", "h">>) THEN 18
    ELSE IF SameIgnoringCase(industry, <<"h", "e", "a", "l", "t", "h", "c", "a", "r", "e">>) THEN 17
    ELSE IF SameIgnoringCase(industry, <<"e", "c", "o", "m", "m", "e", "r", "c", "e">>) THEN 14
    ELSE IF SameIgnoringCase(industry, <<"e", "n", "t", "e", "r", "p", "r", "i", "s", "e">>) THEN 12
    ELSE 10

C19_IndustryLookup ==
    /\ metrics # <<>> =>
          /\ industry_factor(industry_arg) = Multiplier(industry_arg)
          /\ metrics[1].risk_score = Min(10000, BaseScore * Multiplier(industry_arg))
    /\ \A i \in Industries : industry_factor(i) \in { 10, 12, 14, 17, 18 }

C19_Witness ==
    /\ metrics # <<>>
    /\ industry_arg = <<"H", "E", "A", "L", "T", "H", "C", "A", "R", "E">>
    /\ BaseScore = 500
    /\ metrics[1].risk_score = 8500

(***************************************************************************)
(* C20.  generate_executive_summary maps the adjusted risk score to        *)
(* exactly one risk level by thresholds checked highest first: a score of  *)
(* at least 8.0 gives CRITICAL, from 6.0 up to 8.0 excluded HIGH, from     *)
(* 4.0 up to 6.0 excluded MEDIUM, below 4.0 LOW (8.0 is CRITICAL, 7.99     *)
(* HIGH, 6.0 HIGH, 5.99 MEDIUM, 4.0 MEDIUM, 3.99 LOW), and the level is    *)
(* monotone non-decreasing in the score.                                   *)
(***************************************************************************)
Rank(level) ==
    CASE level = "LOW" -> 0 [] level = "MEDIUM" -> 1 [] level = "HIGH" -> 2
      [] level = "CRITICAL" -> 3

\* the adjusted scores of the boundary check, in thousandths
BoundaryScores == { 3990, 4000, 5990, 6000, 7990, 8000 }

C20_RiskLevel ==
    summary # <<>> =>
        LET s     == metrics[1].risk_score
            level == summary[1].risk_level
        IN  /\ level \in { "CRITICAL", "HIGH", "MEDIUM", "LOW" }
            /\ (level = "CRITICAL") <=> (s >= 8000)
            /\ (level = "HIGH") <=> (6000 <= s /\ s < 8000)
            /\ (level = "MEDIUM") <=> (4000 <= s /\ s < 6000)
            /\ (level = "LOW") <=> (s < 4000)
            /\ s = 8000 => level = "CRITICAL"
            /\ s = 7990 => level = "HIGH"
            /\ s = 6000 => level = "HIGH"
            /\ s = 5990 => level = "MEDIUM"
            /\ s = 4000 => level = "MEDIUM"
            /\ s = 3990 => level = "LOW"
            /\ \A t \in BoundaryScores :
                  /\ t <= s => Rank(risk_level(t)) <= Rank(level)
                  /\ s <= t => Rank(level) <= Rank(risk_level(t))

C20_Witness ==
    /\ summary # <<>>
    /\ metrics[1].risk_score = 7990
    /\ summary[1].risk_level = "HIGH"

(***************************************************************************)
(* C21.  Financial exposure is computed from the risk score of the         *)
(* RiskMetrics (the industry-adjusted one) and the business-impact score:  *)
(* base = risk_score x business_impact_score x 10000, minimum = round(0.5  *)
(* x base), expected = round(1.2 x base), maximum = round(3.5 x base),     *)
(* each a whole number nearest to the product; minimum <= expected <=      *)
(* maximum, and all three are 0 when either score is 0.                    *)
(***************************************************************************)
\* dollars is a whole number nearest to base * tenths / 10
NearestDollar(dollars, base, tenths) == 2 * Abs(10 * dollars - base * tenths) <= 10

C21_FinancialExposure ==
    summary # <<>> =>
        LET base     == metrics[1].risk_score * metrics[1].business_impact_score
            exposure == summary[1].potential_financial_exposure
        IN  /\ NearestDollar(exposure.minimum, base, 5)
            /\ NearestDollar(exposure.expected, base, 12)
            /\ NearestDollar(exposure.maximum, base, 35)
            /\ exposure.minimum <= exposure.expected
            /\ exposure.expected <= exposure.maximum
            /\ base = 0 =>
                  exposure = [minimum |-> 0, expected |-> 0, maximum |-> 0]

C21_Witness ==
    /\ summary # <<>>
    /\ industry_arg = <<"h", "e", "a", "l", "t", "h", "c", "a", "r", "e">>
    /\ BaseScore = 399
    /\ metrics[1].risk_score = 6783
    /\ metrics[1].business_impact_score = 53
    /\ summary[1].potential_financial_exposure
          = [minimum |-> 179750, expected |-> 431399, maximum |-> 1258246]

(***************************************************************************)
(* C22.  Scenario D: for an empty findings set generate_risk_assessment    *)
(* gives vulnerability_count 0, an empty severity distribution,            *)
(* business_impact_score 0.0, cost total 0 and timeline 0.0 for every      *)
(* industry, and with base risk score 0 the executive summary's risk       *)
(* level is LOW with all three financial-exposure figures 0.               *)
(***************************************************************************)
C22_ScenarioD ==
    /\ (metrics # <<>> /\ Assessed = <<>>) =>
          /\ metrics[1].vulnerability_count = 0
          /\ DOMAIN metrics[1].severity_distribution = {}
          /\ metrics[1].business_impact_score = 0
          /\ DOMAIN metrics[1].remediation_cost = { "total" }
          /\ metrics[1].remediation_cost["total"] = 0
          /\ metrics[1].timeline_months = 0
    /\ (summary # <<>> /\ Assessed = <<>> /\ BaseScore = 0) =>
          /\ summary[1].risk_level = "LOW"
          /\ summary[1].potential_financial_exposure.minimum = 0
          /\ summary[1].potential_financial_exposure.expected = 0
          /\ summary[1].potential_financial_exposure.maximum = 0

C22_Witness ==
    /\ summary # <<>>
    /\ audit_input = [risk_score |-> 0]
    /\ industry_arg = <<"f", "i", "n", "t", "e", "c", "h">>
    /\ summary[1].risk_level = "LOW"
    /\ metrics[1].vulnerability_count = 0

(***************************************************************************)
(* The stages after the scan, run one after the other on a list of         *)
(* findings as run_comprehensive_audit runs them: calculate_risk_score on  *)
(* the Vulnerability objects, the findings and the score handed over as    *)
(* audit_data, generate_risk_assessment on it, generate_executive_summary  *)
(* on the RiskMetrics.                                                     *)
(***************************************************************************)
\* the rule of the built-in catalog with this regular expression
RuleOf(pattern) ==
    CHOOSE rule \in Range(Rules(patterns_builtin)) : rule.pattern = pattern

\* findings as scan_file makes them; the last one as it makes them for a
\* category that a substituted catalog adds
FindingCritical == Vulnerability(RuleOf("SELECT.*\\+.*FROM"), FileE.rel, 2, LineSelect)
FindingHigh     == Vulnerability(RuleOf("\\.\\./"), FileC.rel, 1, LineOpen)
FindingMedium   == Vulnerability(RuleOf("md5\\s*\\("), FileE.rel, 3, LineMd5)
FindingLow      == Vulnerability([category |-> "csrf", pattern |-> "csrf_exempt", description |-> "CSRF protection disabled"], FileC.rel, 1, LineOpen)

CoreFindings == { FindingCritical, FindingHigh, FindingMedium }

\* short lists of the four findings, longer ones of the three of the catalog
StageLists ==
    SeqsUpTo(CoreFindings \cup { FindingLow }, MaxShort)
        \cup SeqsUpTo(CoreFindings, MaxVulns)

StageIndustries == { <<"f", "i", "n", "t", "e", "c", "h">>, DefaultIndustry }

\* the dict comprehension of run_comprehensive_audit: one dict for each
\* Vulnerability, field by field
VulnerabilityDict(v) ==
    [severity     |-> v.severity,
     category     |-> v.category,
     description  |-> v.description,
     file_path    |-> v.file_path,
     line_number  |-> v.line_number,
     code_snippet |-> v.code_snippet,
     remediation  |-> v.remediation,
     cwe_id       |-> v.cwe_id,
     cvss_score   |-> v.cvss_score]

\* the keys of audit_data the calculator reads; the risk score, in tenths
\* where it is computed, is in hundredths in audit_data
AuditData(vulnerabilities, risk_score) ==
    [vulnerabilities |-> [i \in DOMAIN vulnerabilities |-> VulnerabilityDict(vulnerabilities[i])],
     risk_score      |-> risk_score * 10]

HandOver ==
    /\ score # <<>>
    /\ audit_input = <<>>
    /\ audit_input' = AuditData(findings, score[1])
    /\ UNCHANGED <<target_path, tree, patterns, lists, results, returned, stdout,
                   looked_up, findings, score, industry_arg, metrics, summary,
                   comprehensive_results>>

AssessHandedOver == audit_input # <<>> /\ GenerateRiskAssessment

InitStages ==
    /\ NoAudit
    /\ target_path = <<"a", "p", "p">>
    /\ tree = <<>>
    /\ patterns = patterns_builtin
    /\ lists = [ref \in { SelfVulnerabilities } |-> <<>>]
    /\ results = <<>>
    /\ returned = <<>>
    /\ stdout = <<>>
    /\ NoLookup
    /\ findings \in StageLists
    /\ score = <<>>
    /\ audit_input = <<>>
    /\ industry_arg \in StageIndustries
    /\ metrics = <<>>
    /\ summary = <<>>

NextStages ==
    CalculateRiskScore \/ HandOver \/ AssessHandedOver \/ GenerateExecutiveSummary

SpecStages == InitStages /\ [][NextStages]_vars

(***************************************************************************)
(* C23.  No stage mutates an upstream result: calculate_risk_score leaves  *)
(* the finding list unchanged, generate_risk_assessment leaves its         *)
(* audit_data (finding summaries and base risk score) unchanged, and       *)
(* generate_executive_summary leaves the RiskMetrics it is given           *)
(* unchanged.                                                              *)
(***************************************************************************)
C23_NoUpstreamMutation ==
    [][/\ findings' = findings
       /\ score # <<>> => score' = score
       /\ audit_input # <<>> => audit_input' = audit_input
       /\ metrics # <<>> => metrics' = metrics]_vars

C23_Witness ==
    /\ summary # <<>>
    /\ Len(findings) = 3
    /\ findings[1] = FindingMedium
    /\ findings[3] = FindingCritical
    /\ audit_input = AuditData(findings, score[1])

(***************************************************************************)
(* C24.  The downstream stages are order-independent: for every            *)
(* permutation of the same findings calculate_risk_score returns the same  *)
(* score and generate_risk_assessment returns the same vulnerability       *)
(* count, severity counts, business-impact score, costs, timeline and      *)
(* adjusted risk score.                                                    *)
(* The finding lists of the stages hold, with a list, every reordering of  *)
(* it, and a permutation is a product of exchanges of two elements: the    *)
(* property is stated for every exchange, on every list.                   *)
(***************************************************************************)
\* s with its elements at i and j exchanged
Exchange(s, i, j) ==
    [k \in DOMAIN s |-> IF k = i THEN s[j] ELSE IF k = j THEN s[i] ELSE s[k]]

C24_OrderIndependent ==
    \A i \in DOMAIN findings : \A j \in (i + 1)..Len(findings) :
        LET reordered == Exchange(findings, i, j)
        IN  /\ score # <<>> => calculate_risk_score(reordered) = score[1]
            /\ metrics # <<>> =>
                  LET other == generate_risk_assessment(AuditData(reordered, score[1]),
                                                        industry_arg)
                  IN  /\ other.vulnerability_count = metrics[1].vulnerability_count
                      /\ other.severity_distribution = metrics[1].severity_distribution
                      /\ other.business_impact_score = metrics[1].business_impact_score
                      /\ other.remediation_cost = metrics[1].remediation_cost
                      /\ other.timeline_months = metrics[1].timeline_months
                      /\ other.risk_score = metrics[1].risk_score

C24_Witness ==
    /\ metrics # <<>>
    /\ Len(findings) = 6
    /\ findings[1] = FindingMedium
    /\ findings[6] = FindingCritical
    /\ metrics[1].business_impact_score = 76

(***************************************************************************)
(* run_comprehensive_audit, statement by statement: the opening prints,    *)
(* the scan by an auditor made for the call, audit_data, the assessment,   *)
(* the executive summary, and the results assembled, saved and returned.   *)
(* The two files saved hold the returned dict and its text rendering;      *)
(* their names, as the timestamp and duration fields, come from the clock  *)
(* and are left out.                                                       *)
(***************************************************************************)
Said(text, path) == [text |-> text, path |-> path]

AnnounceAudit ==
    /\ stdout = <<>>
    /\ results = <<>>
    /\ stdout' = << Said("Starting comprehensive security audit...", <<>>),
                    Said("Target:", target_path),
                    Said("Industry:", industry_arg),
                    Said("--------------------------------------------------", <<>>) >>
    /\ UNCHANGED <<target_path, tree, patterns, lists, results, returned,
                   looked_up, findings, score, audit_input, industry_arg, metrics,
                   summary, comprehensive_results>>

\* auditor = SecurityAuditor(target_path); audit_result = auditor.scan_directory()
AuditScan ==
    /\ stdout # <<>>
    /\ results = <<>>
    /\ ScanDirectory

\* audit_data, of which the clock fields are left out
BuildAuditData ==
    /\ results # <<>>
    /\ audit_input = <<>>
    /\ LET audit_result == results[1]
       IN  audit_input' =
               AuditData(lists[audit_result.vulnerabilities], audit_result.risk_score)
                   @@ [total_files_scanned |-> audit_result.total_files_scanned]
    /\ UNCHANGED <<target_path, tree, patterns, lists, results, returned, stdout,
                   looked_up, findings, score, industry_arg, metrics, summary,
                   comprehensive_results>>

\* list(set(v.category for v in vulns)): the order of a set of strings is
\* not fixed by the language, the categories are kept as the set
_generate_priority_actions(vulnerabilities) ==
    LET critical_vulns == SelectSeq(vulnerabilities, LAMBDA v : v.severity = "critical")
        high_vulns     == SelectSeq(vulnerabilities, LAMBDA v : v.severity = "high")
    IN  (IF critical_vulns # <<>>
         THEN << [priority   |-> 1,
                  action     |-> "Address critical vulnerabilities immediately",
                  count      |-> Len(critical_vulns),
                  categories |-> { v.category : v \in Range(critical_vulns) },
                  timeline   |-> "1-2 weeks"] >>
         ELSE <<>>)
        \o (IF high_vulns # <<>>
            THEN << [priority   |-> 2,
                     action     |-> "Remediate high-severity vulnerabilities",
                     count      |-> Len(high_vulns),
                     categories |-> { v.category : v \in Range(high_vulns) },
                     timeline   |-> "2-4 weeks"] >>
            ELSE <<>>)
        \o << [priority |-> 3,
               action   |-> "Implement comprehensive input validation framework",
               timeline |-> "4-6 weeks"],
              [priority |-> 4,
               action   |-> "Establish security code review process",
               timeline |-> "2-3 weeks"],
              [priority |-> 5,
               action   |-> "Deploy automated security scanning in CI/CD pipeline",
               timeline |-> "1-2 weeks"] >>

\* ComprehensiveResults reporting the adjusted score of the RiskMetrics in
\* vulnerability_summary too
ComprehensiveResults_AdjustedScore(target, industry, audit_result, vulnerabilities, audit_data, risk_metrics, executive_summary) ==
    [audit_metadata |->
         [target_path      |-> target,
          files_scanned    |-> audit_result.total_files_scanned,
          industry_context |-> industry],
     vulnerability_summary |->
         [total_vulnerabilities |-> Len(vulnerabilities),
          severity_breakdown    |-> risk_metrics.severity_distribution,
          risk_score            |-> risk_metrics.risk_score \div 100,
          business_impact_score |-> risk_metrics.business_impact_score],
     executive_summary |-> executive_summary,
     detailed_vulnerabilities |-> audit_data.vulnerabilities,
     remediation_roadmap |->
         [estimated_cost            |-> risk_metrics.remediation_cost,
          estimated_timeline_months |-> risk_metrics.timeline_months,
          priority_actions          |-> _generate_priority_actions(vulnerabilities)]]

\* the comprehensive_results dict; vulnerability_summary.risk_score is the
\* score of the scan, in tenths
ComprehensiveResults(target, industry, audit_result, vulnerabilities, audit_data, risk_metrics, executive_summary) ==
    [audit_metadata |->
         [target_path      |-> target,
          files_scanned    |-> audit_result.total_files_scanned,
          industry_context |-> industry],
     vulnerability_summary |->
         [total_vulnerabilities |-> Len(vulnerabilities),
          severity_breakdown    |-> risk_metrics.severity_distribution,
          risk_score            |-> audit_result.risk_score,
          business_impact_score |-> risk_metrics.business_impact_score],
     executive_summary |-> executive_summary,
     detailed_vulnerabilities |-> audit_data.vulnerabilities,
     remediation_roadmap |->
         [estimated_cost            |-> risk_metrics.remediation_cost,
          estimated_timeline_months |-> risk_metrics.timeline_months,
          priority_actions          |-> _generate_priority_actions(vulnerabilities)]]

CompleteAudit ==
    /\ summary # <<>>
    /\ results # <<>>
    /\ comprehensive_results = <<>>
    /\ comprehensive_results' =
           << ComprehensiveResults(target_path, industry_arg, results[1],
                                   lists[results[1].vulnerabilities], audit_input,
                                   metrics[1], summary[1]) >>
    /\ stdout' = stdout \o << Said("Audit completed successfully!", <<>>),
                              Said("Results saved to:", <<>>),
                              Said("Report saved to:", <<>>) >>
    /\ UNCHANGED <<target_path, tree, patterns, lists, results, returned,
                   looked_up, findings, score, audit_input, industry_arg, metrics,
                   summary>>

PipelineIndustries ==
    { <<"f", "i", "n", "t", "e", "c", "h">>, <<"H", "E", "A", "L", "T", "H", "C", "A", "R", "E">>, <<"e", "c", "o", "m", "m", "e", "r", "c", "e">>, DefaultIndustry, <<"C", "o", "n", "s", "u", "m", "e", "r">>, <<"r", "e", "t", "a", "i", "l">> }

\* a file holding nothing but one weak-hash call
FileHash == File(<<"h", ".", "p", "y">>, << LineMd5 >>)

PipelineTrees == InjectiveSeqs(Entries \cup { FileHash }, MaxFiles)

InitPipeline ==
    /\ target_path = <<"a", "p", "p">>
    /\ tree \in PipelineTrees
    /\ patterns = patterns_builtin
    /\ lists = [ref \in { SelfVulnerabilities } |-> <<>>]
    /\ results = <<>>
    /\ returned = <<>>
    /\ stdout = <<>>
    /\ NoLookup /\ NoScoreCall /\ NoAudit
    /\ audit_input = <<>>
    /\ industry_arg \in PipelineIndustries
    /\ metrics = <<>>
    /\ summary = <<>>

NextPipeline ==
    \/ AnnounceAudit
    \/ AuditScan
    \/ BuildAuditData
    \/ AssessHandedOver
    \/ GenerateExecutiveSummary
    \/ CompleteAudit

SpecPipeline == InitPipeline /\ [][NextPipeline]_vars

(***************************************************************************)
(* C25.  With the built-in catalog no scan emits a finding of severity     *)
(* low, so a scan result with at least one finding has a base risk score   *)
(* in [4.0, 10.0]; in the full pipeline run_comprehensive_audit the        *)
(* executive summary's risk level is LOW if and only if the scan found no  *)
(* findings, for every industry.                                           *)
(***************************************************************************)
C25_LowOnlyWithoutFindings ==
    /\ \A k \in DOMAIN results :
          LET found == lists[results[k].vulnerabilities]
          IN  /\ \A p \in DOMAIN found : found[p].severity # "low"
              /\ found # <<>> => results[k].risk_score \in 40..100
    /\ comprehensive_results # <<>> =>
          LET report == comprehensive_results[1]
          IN  (report.executive_summary.risk_level = "LOW")
                  <=> (report.detailed_vulnerabilities = <<>>)

C25_Witness ==
    /\ comprehensive_results # <<>>
    /\ tree = << FileHash >>
    /\ industry_arg = <<"r", "e", "t", "a", "i", "l">>
    /\ comprehensive_results[1].detailed_vulnerabilities # <<>>
    /\ comprehensive_results[1].vulnerability_summary.risk_score = 40
    /\ comprehensive_results[1].executive_summary.risk_level = "MEDIUM"

(***************************************************************************)
(* C26.  Detector soundness: every finding in the result of the first      *)
(* scan_directory call on an auditor corresponds to an actual match: its   *)
(* file_path names an eligible file that was walked, its line_number lies  *)
(* between 1 and that file's line count, its category is a catalog         *)
(* category, and some rule of that category with the finding's description *)
(* matches that line, whose trimmed text is the code_snippet.              *)
(***************************************************************************)
\* finding f is a match of some rule of the catalog on a line of entry
ActualMatch(f, entry) ==
    /\ Scannable(entry)
    /\ entry.rel = f.file_path
    /\ f.line_number \in 1..Len(entry.lines)
    /\ \E c \in DOMAIN patterns :
          /\ patterns[c].category = f.category
          /\ \E r \in DOMAIN patterns[c].rules :
                /\ patterns[c].rules[r].description = f.description
                /\ re_search(patterns[c].rules[r].pattern, entry.lines[f.line_number])
    /\ f.code_snippet = strip(entry.lines[f.line_number])

C26_DetectorSound ==
    results # <<>> =>
        \A p \in DOMAIN Findings(results[1]) :
            \E i \in DOMAIN tree : ActualMatch(Findings(results[1])[p], tree[i])

C26_Witness ==
    /\ Len(results) = 1
    /\ \E p \in DOMAIN Findings(results[1]) :
          LET f == Findings(results[1])[p]
          IN  /\ f.file_path = FileB.rel
              /\ f.line_number = 2
              /\ f.category = "command_injection"
              /\ f.code_snippet # LineExec
              /\ \E i \in DOMAIN tree : ActualMatch(f, tree[i])

(***************************************************************************)
(* C27.  total_files_scanned equals the number of eligible files visited   *)
(* by the walk, counting also every eligible file whose read or scan       *)
(* raised an error and was skipped; it is never smaller than the number of *)
(* distinct file paths appearing in that invocation's findings.            *)
(***************************************************************************)
EligibleVisited == { i \in DOMAIN tree : Scannable(tree[i]) }

PathsIn(fs) == { fs[p].file_path : p \in DOMAIN fs }

C27_FilesScannedCount ==
    \A k \in DOMAIN results :
        /\ results[k].total_files_scanned = Cardinality(EligibleVisited)
        /\ results[k].total_files_scanned >= Cardinality(PathsIn(Delta(k)))
        /\ results[k].total_files_scanned >= Cardinality(PathsIn(returned[k]))

C27_Witness ==
    /\ results # <<>>
    /\ tree = << FileLocked, FileB >>
    /\ Printed("Error scanning", FullPath(target_path, FileLocked.rel)) >= 1
    /\ results[1].total_files_scanned = 2
    /\ PathsIn(Delta(1)) = { FileB.rel }

(***************************************************************************)
(* C28.  In calculate_risk_score a finding whose severity is not one of    *)
(* critical/high/medium/low contributes weight 0 to the numerator but      *)
(* still counts in the denominator: the score is the tenth nearest to the  *)
(* sum of the known weights over the number of all findings, a non-empty   *)
(* list made only of such findings scores 0.0, and mixing them into a list *)
(* never raises the score.                                                 *)
(***************************************************************************)
KnownSeverity(f) == f.severity \in { "critical", "high", "medium", "low" }

C28_UnknownSeverityWeighsZero ==
    score # <<>> =>
        LET known == SelectSeq(findings, KnownSeverity)
        IN  /\ findings # <<>> =>
                 2 * Abs(score[1] * Len(findings) - 10 * WeightSum(known)) <= Len(findings)
            /\ (findings # <<>> /\ known = <<>>) => score[1] = 0
            /\ score[1] <= calculate_risk_score(known)

C28_Witness ==
    /\ findings = << [severity |-> "critical"], [severity |-> "info"], [severity |-> "info"] >>
    /\ score = << 33 >>

(***************************************************************************)
(* C29.  Every industry multiplier is at least 1.0, so for every base risk *)
(* score in [0,10] and every industry the adjusted risk score is at least  *)
(* the base score, and the risk level obtained with any industry is never  *)
(* lower than the level obtained from the same base score with multiplier  *)
(* 1.0.                                                                    *)
(***************************************************************************)
\* the rank of the level of a base score, in hundredths, taken as it is
UnadjustedRank(base) ==
    IF base >= 800 THEN 3 ELSE IF base >= 600 THEN 2 ELSE IF base >= 400 THEN 1 ELSE 0

C29_IndustryNeverLowers ==
    /\ \A i \in Industries : industry_factor(i) >= 10
    /\ (metrics # <<>> /\ BaseScore \in 0..1000) =>
          metrics[1].risk_score >= BaseScore * 10
    /\ (summary # <<>> /\ BaseScore \in 0..1000) =>
          Rank(summary[1].risk_level) >= UnadjustedRank(BaseScore)

C29_Witness ==
    /\ summary # <<>>
    /\ industry_arg = <<"c", "o", "n", "s", "u", "m", "e", "r">>
    /\ BaseScore = 600
    /\ metrics[1].risk_score = 6000
    /\ summary[1].risk_level = "HIGH"

(***************************************************************************)
(* C30.  In the result of run_comprehensive_audit the counts agree across  *)
(* sections: vulnerability_summary.total_vulnerabilities,                  *)
(* executive_summary.total_vulnerabilities, the length of                  *)
(* detailed_vulnerabilities and the sum of severity_breakdown are all      *)
(* equal, and executive_summary's critical and high counts equal the       *)
(* numbers of critical and high entries in detailed_vulnerabilities;       *)
(* vulnerability_summary.risk_score is the base score of the scan while    *)
(* executive_summary reports the industry-adjusted score.                  *)
(***************************************************************************)
EntriesOf(vs, severity) == Cardinality({ p \in DOMAIN vs : vs[p].severity = severity })

C30_SectionsAgree ==
    comprehensive_results # <<>> =>
        LET report   == comprehensive_results[1]
            overview == report.vulnerability_summary
            exec     == report.executive_summary
            detailed == report.detailed_vulnerabilities
        IN  /\ overview.total_vulnerabilities = Len(detailed)
            /\ exec.total_vulnerabilities = Len(detailed)
            /\ SumValues(overview.severity_breakdown) = Len(detailed)
            /\ exec.critical_vulnerabilities = EntriesOf(detailed, "critical")
            /\ exec.high_vulnerabilities = EntriesOf(detailed, "high")
            /\ overview.risk_score = results[1].risk_score
            /\ exec.risk_score =
                   Min(10000, results[1].risk_score * 10 * Multiplier(industry_arg))

C30_Witness ==
    /\ comprehensive_results # <<>>
    /\ industry_arg = <<"f", "i", "n", "t", "e", "c", "h">>
    /\ tree = << FileC, FileE >>
    /\ Len(comprehensive_results[1].detailed_vulnerabilities) >= 3
    /\ comprehensive_results[1].executive_summary.critical_vulnerabilities >= 1
    /\ comprehensive_results[1].executive_summary.high_vulnerabilities >= 1
    /\ comprehensive_results[1].vulnerability_summary.risk_score * 100
          < comprehensive_results[1].executive_summary.risk_score
====
